---- MODULE Spec2Model ----
(***************************************************************************)
(* Model of kiutils' S-expression engine: the tokenizer/parser parse_sexp, *)
(* the boolean convention parse_bool, the generic marshaller SexprAuto and *)
(* the hand-written decoders of the board items.                           *)
(*                                                                         *)
(* A text is a sequence of one-character strings.  A Python value (a Term  *)
(* of the parsed tree, or the value of a record field) is a record         *)
(*     [k |-> kind, s |-> characters, n |-> number, l |-> children]        *)
(* with kind "str" (Python str: parse_sexp returns a str both for a quoted *)
(* string and for a bare symbol), "int", "float" (n counts units of        *)
(* 10^-FracDigits), "bool" (n is 0 or 1), "none" (None) and "list".        *)
(***************************************************************************)
EXTENDS Integers, Sequences, FiniteSets, TLC

VARIABLES
    sexp,       \* parse_sexp: the argument, a text
    pos,        \* parse_sexp: where re.finditer resumes its search
    stack,      \* parse_sexp: the stack of in-progress lists
    out,        \* parse_sexp: the current list
    term,       \* parse_sexp: the group of the match in hand ("none" before)
    value,      \* parse_sexp: the text of the match in hand
    pc,         \* parse_sexp: "scan", "done" or "fail"
    result,     \* parse_sexp: what the call returned or raised
    call,       \* the function called on a value ("none": no such call)
    arg,        \* its argument
    ret,        \* what it returned or raised ("running" before it ends)
    hints       \* get_type_hints: the classes its lru_cache holds

parseVars == <<sexp, pos, stack, out, term, value, pc, result>>
callVars == <<call, arg, ret, hints>>

----------------------------------------------------------------------------
(* Bounds *)

MaxLen == 4         \* longest text handed to parse_sexp
MaxArgs == 3        \* longest list handed to parse_bool
MaxItems == 2       \* most children of a term handed to a decoder
FracDigits == 7     \* decimal digits a float of the model resolves
MaxIndent == 2      \* widest indent handed to a to_sexpr

----------------------------------------------------------------------------
(* Python values *)

PyStr(chars) == [k |-> "str", s |-> chars, n |-> 0, l |-> <<>>]
PyInt(i) == [k |-> "int", s |-> <<>>, n |-> i, l |-> <<>>]
PyFloat(u) == [k |-> "float", s |-> <<>>, n |-> u, l |-> <<>>]
PyBool(b) == [k |-> "bool", s |-> <<>>, n |-> IF b THEN 1 ELSE 0, l |-> <<>>]
PyList(elems) == [k |-> "list", s |-> <<>>, n |-> 0, l |-> elems]
PyNone == [k |-> "none", s |-> <<>>, n |-> 0, l |-> <<>>]

RECURSIVE Pow10(_)
Pow10(e) == IF e <= 0 THEN 1 ELSE 10 * Pow10(e - 1)

Unit == Pow10(FracDigits)

----------------------------------------------------------------------------
(* term_regex *)

Whitespace == {" ", "\n", "\t"}
Digits == {"0", "1", "2", "3", "4", "5", "6", "7", "8", "9"}

DigitVal(c) ==
    CASE c = "0" -> 0 [] c = "1" -> 1 [] c = "2" -> 2 [] c = "3" -> 3
      [] c = "4" -> 4 [] c = "5" -> 5 [] c = "6" -> 6 [] c = "7" -> 7
      [] c = "8" -> 8 [] c = "9" -> 9

\* the character at index i, or a value no character equals past the end
At(text, i) == IF i >= 1 /\ i <= Len(text) THEN text[i] ELSE "EOF"

Slice(text, a, b) == [i \in 1..(b - a + 1) |-> text[a + i - 1]]

\* the first index at or after i that holds no character of set
RECURSIVE RunEnd(_, _, _)
RunEnd(text, i, set) ==
    IF At(text, i) \in set THEN RunEnd(text, i + 1, set) ELSE i

\* the lookahead (?=[\ \)]) of the num group: a space or a closing
\* parenthesis, no other whitespace
NumLookahead == {" ", ")"}

\* [+-]?\d+\.\d+(?=[\ \)]) : index after the match at q, 0 when none
NumFloatEnd(text, q) ==
    LET i1 == IF At(text, q) \in {"+", "-"} THEN q + 1 ELSE q
        d1 == RunEnd(text, i1, Digits)
        d2 == RunEnd(text, d1 + 1, Digits)
    IN  IF d1 > i1 /\ At(text, d1) = "." /\ d2 > d1 + 1
           /\ At(text, d2) \in NumLookahead
        THEN d2 ELSE 0

\* \-?\d+(?=[\ \)]) : index after the match at q, 0 when none
NumIntEnd(text, q) ==
    LET i1 == IF At(text, q) = "-" THEN q + 1 ELSE q
        d1 == RunEnd(text, i1, Digits)
    IN  IF d1 > i1 /\ At(text, d1) \in NumLookahead THEN d1 ELSE 0

NumEnd(text, q) ==
    LET e == NumFloatEnd(text, q)
    IN  IF e # 0 THEN e ELSE NumIntEnd(text, q)

\* the longest prefix at q of the shape sign? digits (. digits)? : the
\* index after it, 0 when there is none
NumericRunEnd(text, q) ==
    LET i1 == IF At(text, q) \in {"+", "-"} THEN q + 1 ELSE q
        d1 == RunEnd(text, i1, Digits)
        d2 == RunEnd(text, d1 + 1, Digits)
    IN  IF d1 = i1 THEN 0
        ELSE IF At(text, d1) = "." /\ d2 > d1 + 1 THEN d2
        ELSE d1

\* "(?:[^"]|(?<=\\)")*"(?:(?=\))|(?=\s)) : the greedy star backtracks to
\* the last quote that closes the string and stands before ")" or a space
SqCloses(text, q) ==
    { e \in (q + 1)..Len(text) :
        /\ text[e] = "\""
        /\ At(text, e + 1) \in ({")"} \cup Whitespace)
        /\ \A j \in (q + 1)..(e - 1) :
              text[j] # "\"" \/ text[j - 1] = "\\" }

SqEnd(text, q) ==
    LET closes == IF At(text, q) = "\"" THEN SqCloses(text, q) ELSE {}
    IN  IF closes # {}
        THEN (CHOOSE e \in closes : \A f \in closes : f <= e) + 1
        ELSE 0

\* [^(^)\s]+ : the class also excludes the caret
SymbolStop == {"(", "^", ")", "EOF"} \cup Whitespace

RECURSIVE SymbolRunEnd(_, _)
SymbolRunEnd(text, i) ==
    IF At(text, i) \in SymbolStop THEN i ELSE SymbolRunEnd(text, i + 1)

SEnd(text, q) ==
    IF SymbolRunEnd(text, q) > q THEN SymbolRunEnd(text, q) ELSE 0

NoMatch == [term |-> "none", value |-> <<>>, end |-> 0]

\* the groups of term_regex tried in order at the non-space index q
MatchAt(text, q) ==
    LET num == NumEnd(text, q)
        sq == SqEnd(text, q)
        sym == SEnd(text, q)
    IN  IF At(text, q) = "(" THEN
            [term |-> "brackl", value |-> <<"(">>, end |-> q + 1]
        ELSE IF At(text, q) = ")" THEN
            [term |-> "brackr", value |-> <<")">>, end |-> q + 1]
        ELSE IF num # 0 THEN
            [term |-> "num", value |-> Slice(text, q, num - 1), end |-> num]
        ELSE IF sq # 0 THEN
            [term |-> "sq", value |-> Slice(text, q, sq - 1), end |-> sq]
        ELSE IF sym # 0 THEN
            [term |-> "s", value |-> Slice(text, q, sym - 1), end |-> sym]
        ELSE NoMatch

\* re.finditer: the next match found by searching from index p; \s* eats
\* leading whitespace, a character no group accepts is stepped over
RECURSIVE FindTerm(_, _)
FindTerm(text, p) ==
    LET q == RunEnd(text, p, Whitespace)
        m == MatchAt(text, q)
    IN  IF q > Len(text) THEN NoMatch
        ELSE IF m.term # "none" THEN m
        ELSE FindTerm(text, q + 1)

----------------------------------------------------------------------------
(* parse_sexp *)

RECURSIVE DigitsValue(_)
DigitsValue(ds) ==
    IF ds = <<>> THEN 0
    ELSE 10 * DigitsValue(SubSeq(ds, 1, Len(ds) - 1)) + DigitVal(ds[Len(ds)])

\* float(value), then int(v) when v.is_integer()
NumValue(lit) ==
    LET signed == lit[1] \in {"+", "-"}
        body == IF signed THEN Tail(lit) ELSE lit
        dot == RunEnd(body, 1, Digits)
        whole == DigitsValue(SubSeq(body, 1, dot - 1))
        frac == SubSeq(body, dot + 1, Len(body))
        units == DigitsValue(frac) * Pow10(FracDigits - Len(frac))
        sign == IF lit[1] = "-" THEN -1 ELSE 1
    IN  IF units = 0 THEN PyInt(sign * whole)
        ELSE PyFloat(sign * (whole * Unit + units))

\* str.replace left out: the characters between the quotes as they stand
Unescape_Kept(chars) == chars

\* str.replace(r"\"", '"'): each backslash-quote pair, left to right,
\* becomes a quote
RECURSIVE Unescape(_)
Unescape(chars) ==
    IF Len(chars) >= 2 /\ chars[1] = "\\" /\ chars[2] = "\"" THEN
        <<"\"">> \o Unescape(SubSeq(chars, 3, Len(chars)))
    ELSE IF chars = <<>> THEN <<>>
    ELSE <<chars[1]>> \o Unescape(Tail(chars))

\* value[1:-1].replace(r"\"", '"')
SqValue(lit) == PyStr(Unescape(SubSeq(lit, 2, Len(lit) - 1)))

\* what a call of parse_sexp ends with
Returned(t) == [status |-> "ok", term |-> t]
Raised(error) == [status |-> error, term |-> PyNone]
Running == [status |-> "running", term |-> PyNone]

\* line 51: assert stack
BracketAssert(stk) == stk # <<>>

\* the loop body with line 53 extending the list underneath by the items
\* of the list just closed instead of appending that list to it
TermStep_Spliced(st, m) ==
    CASE m.term = "brackl" ->
            [stack |-> Append(st.stack, st.out), out |-> <<>>,
             status |-> "scan"]
      [] m.term = "brackr" ->
            IF BracketAssert(st.stack) THEN
                [stack |-> SubSeq(st.stack, 1, Len(st.stack) - 1),
                 out |-> IF Len(st.stack) = 1
                         THEN Append(st.stack[1], PyList(st.out))
                         ELSE st.stack[Len(st.stack)] \o st.out,
                 status |-> "scan"]
            ELSE [stack |-> st.stack, out |-> st.out,
                  status |-> "AssertionError"]
      [] m.term = "num" ->
            [stack |-> st.stack, out |-> Append(st.out, NumValue(m.value)),
             status |-> "scan"]
      [] m.term = "sq" ->
            [stack |-> st.stack, out |-> Append(st.out, SqValue(m.value)),
             status |-> "scan"]
      [] m.term = "s" ->
            [stack |-> st.stack, out |-> Append(st.out, PyStr(m.value)),
             status |-> "scan"]

\* lines 47-64: the loop body for one match m; st is [stack, out, status]
TermStep(st, m) ==
    CASE m.term = "brackl" ->
            [stack |-> Append(st.stack, st.out), out |-> <<>>,
             status |-> "scan"]
      [] m.term = "brackr" ->
            IF BracketAssert(st.stack) THEN
                [stack |-> SubSeq(st.stack, 1, Len(st.stack) - 1),
                 out |-> Append(st.stack[Len(st.stack)], PyList(st.out)),
                 status |-> "scan"]
            ELSE [stack |-> st.stack, out |-> st.out,
                  status |-> "AssertionError"]
      [] m.term = "num" ->
            [stack |-> st.stack, out |-> Append(st.out, NumValue(m.value)),
             status |-> "scan"]
      [] m.term = "sq" ->
            [stack |-> st.stack, out |-> Append(st.out, SqValue(m.value)),
             status |-> "scan"]
      [] m.term = "s" ->
            [stack |-> st.stack, out |-> Append(st.out, PyStr(m.value)),
             status |-> "scan"]

\* ParseReturn without the assertion of line 65
ParseReturn_NoAssert(st) ==
    IF st.out = <<>> THEN Raised("IndexError") ELSE Returned(st.out[1])

\* ParseReturn returning the list itself when it holds nothing
ParseReturn_EmptyList(st) ==
    IF st.stack # <<>> THEN Raised("AssertionError")
    ELSE IF st.out = <<>> THEN Returned(PyList(st.out))
    ELSE Returned(st.out[1])

\* lines 65-66: assert not stack; return out[0]
ParseReturn(st) ==
    IF st.stack # <<>> THEN Raised("AssertionError")
    ELSE IF st.out = <<>> THEN Raised("IndexError")
    ELSE Returned(st.out[1])

\* parse_sexp as a function of its argument: the loop run to its end
RECURSIVE ParseFrom(_, _, _)
ParseFrom(text, p, st) ==
    LET m == FindTerm(text, p)
    IN  IF m.term = "none" THEN ParseReturn(st)
        ELSE IF TermStep(st, m).status # "scan"
             THEN Raised(TermStep(st, m).status)
        ELSE ParseFrom(text, m.end, TermStep(st, m))

ParseStart == [stack |-> <<>>, out |-> <<>>, status |-> "scan"]

parse_sexp(text) == ParseFrom(text, 1, ParseStart)

----------------------------------------------------------------------------
(* The call parse_sexp(sexp), one match of re.finditer per step *)

ParseAlphabet == {"(", ")", " ", "\n", "1", ".", "a", "^", "+", "\""}

RECURSIVE Texts(_, _)
Texts(alphabet, n) ==
    IF n = 0 THEN {<<>>}
    ELSE Texts(alphabet, n - 1)
         \cup { Append(t, c) : t \in { u \in Texts(alphabet, n - 1) :
                                          Len(u) = n - 1 },
                               c \in alphabet }

\* no call of a function on a value is under way
CallIdle ==
    /\ call = "none"
    /\ arg = PyNone
    /\ ret = Running
    /\ hints = {}

ParseInit ==
    /\ CallIdle
    /\ sexp \in Texts(ParseAlphabet, MaxLen)
    /\ pos = 1
    /\ stack = <<>>
    /\ out = <<>>
    /\ term = "none"
    /\ value = <<>>
    /\ pc = "scan"
    /\ result = Running

ParseState == [stack |-> stack, out |-> out, status |-> "scan"]

\* the match re.finditer yields next
NextTerm == FindTerm(sexp, pos)

\* one iteration of the for loop, for the match m
ReadTerm(m) ==
    LET st == TermStep(ParseState, m)
    IN  /\ pos' = m.end
        /\ term' = m.term
        /\ value' = m.value
        /\ stack' = st.stack
        /\ out' = st.out
        /\ pc' = IF st.status = "scan" THEN "scan" ELSE "fail"
        /\ result' = IF st.status = "scan" THEN Running
                     ELSE Raised(st.status)
        /\ UNCHANGED <<sexp, callVars>>

\* line 47
ReadBrackl ==
    /\ pc = "scan"
    /\ LET m == NextTerm IN m.term = "brackl" /\ ReadTerm(m)

\* line 50
ReadBrackr ==
    /\ pc = "scan"
    /\ LET m == NextTerm IN m.term = "brackr" /\ ReadTerm(m)

\* line 54
ReadNum ==
    /\ pc = "scan"
    /\ LET m == NextTerm IN m.term = "num" /\ ReadTerm(m)

\* line 59
ReadSq ==
    /\ pc = "scan"
    /\ LET m == NextTerm IN m.term = "sq" /\ ReadTerm(m)

\* line 61
ReadS ==
    /\ pc = "scan"
    /\ LET m == NextTerm IN m.term = "s" /\ ReadTerm(m)

\* the iterator is exhausted: lines 65-66
ParseEnd ==
    /\ pc = "scan"
    /\ NextTerm.term = "none"
    /\ LET r == ParseReturn(ParseState)
       IN  /\ result' = r
           /\ pc' = IF r.status = "ok" THEN "done" ELSE "fail"
    /\ UNCHANGED <<sexp, pos, stack, out, term, value, callVars>>

ParseNext ==
    \/ ReadBrackl
    \/ ReadBrackr
    \/ ReadNum
    \/ ReadSq
    \/ ReadS
    \/ ParseEnd

vars ==
    <<sexp, pos, stack, out, term, value, pc, result, call, arg, ret, hints>>

SpecParse == ParseInit /\ [][ParseNext]_vars

----------------------------------------------------------------------------
(* Properties of parse_sexp *)

\* every match re.finditer yields on text, searching from p
RECURSIVE AllMatches(_, _)
AllMatches(text, p) ==
    IF FindTerm(text, p).term = "none" THEN <<>>
    ELSE <<FindTerm(text, p)>> \o AllMatches(text, FindTerm(text, p).end)

MatchStart(m) == m.end - Len(m.value)

\* opening minus closing parenthesis tokens among the first k matches
RECURSIVE Depth(_, _)
Depth(ms, k) ==
    IF k = 0 THEN 0
    ELSE Depth(ms, k - 1)
         + (IF ms[k].term = "brackl" THEN 1
            ELSE IF ms[k].term = "brackr" THEN -1 ELSE 0)

\* no closing parenthesis token without an open list, none left open
Balanced(ms) ==
    /\ \A k \in 1..Len(ms) : Depth(ms, k) >= 0
    /\ Depth(ms, Len(ms)) = 0

Finished == pc \in {"done", "fail"}

\* C2: parse_sexp fails on the nesting assertion, and returns no Term,
\* exactly when a ")" token is read with no list open or the input ends
\* with a list still open; on an input whose parenthesis tokens balance
\* neither failure occurs.
C2_UnbalancedFails ==
    Finished =>
        /\ result.status = "AssertionError"
              <=> ~Balanced(AllMatches(sexp, 1))
        /\ result.status = "AssertionError" => result.term = PyNone
        /\ (term = "brackr" /\ pc = "fail" /\ stack = <<>>) =>
              Depth(AllMatches(sexp, 1),
                    CHOOSE k \in 1..Len(AllMatches(sexp, 1)) :
                        AllMatches(sexp, 1)[k].end = pos) < 0

\* a ")" is read with no list open, after a whole list was read
C2_Witness ==
    /\ pc = "fail"
    /\ term = "brackr"
    /\ stack = <<>>
    /\ out # <<>>
    /\ result.status = "AssertionError"

\* the input ends inside an open list
C2_WitnessOpen ==
    /\ pc = "fail"
    /\ term # "brackr"
    /\ stack # <<>>
    /\ result.status = "AssertionError"

\* C3: on an input with no token at all (empty or whitespace only)
\* parse_sexp fails and returns no Term.
C3_EmptyInputFails ==
    (Finished /\ \A i \in 1..Len(sexp) : sexp[i] \in Whitespace) =>
        /\ pc = "fail"
        /\ result.status = "IndexError"
        /\ result.term = PyNone

C3_Witness ==
    /\ pc = "fail"
    /\ sexp = <<" ", "\n">>
    /\ result.status = "IndexError"

\* C4: parse_sexp returns a Term only when the input holds exactly one
\* top-level term (stated for the inputs without the caret that C6 is
\* about).
C4_ExactlyOneTopLevelTerm ==
    (pc = "done" /\ \A i \in 1..Len(sexp) : sexp[i] # "^") => Len(out) = 1

Contains(chars, c) == \E i \in 1..Len(chars) : chars[i] = c

\* C5: a numeric-looking run becomes a number exactly when whitespace
\* (space, tab, newline) or ")" follows it, and the number is a float only
\* if the literal holds a decimal point.
C5_NumberLookahead ==
    (term \in {"num", "s"}
        /\ NumericRunEnd(sexp, pos - Len(value)) # 0) =>
        LET e == NumericRunEnd(sexp, pos - Len(value))
        IN  /\ (term = "num" /\ pos = e)
                  <=> At(sexp, e) \in (Whitespace \cup {")"})
            /\ (term = "num" /\ out[Len(out)].k = "float")
                  => Contains(value, ".")

RunStop == {"(", ")", "EOF"} \cup Whitespace

\* C6: every maximal run without whitespace and parentheses that is no
\* number and no quoted string becomes one Symbol holding the whole run:
\* no character is skipped, no run is split.
C6_SymbolIsMaximalRun ==
    /\ term = "s" =>
          /\ At(sexp, pos) \in RunStop
          /\ At(sexp, pos - Len(value) - 1) \in RunStop
    /\ Finished => \A i \in 1..Len(sexp) :
          sexp[i] \notin RunStop =>
              \E k \in 1..Len(AllMatches(sexp, 1)) :
                  /\ MatchStart(AllMatches(sexp, 1)[k]) <= i
                  /\ i < AllMatches(sexp, 1)[k].end

\* the whitespace strings a gap between two tokens is rewritten to
Indents == {<<" ">>, <<"\n">>, <<"\t">>, <<" ", " ">>, <<"\n", " ">>}

\* text with the whitespace between match k and match k + 1 replaced by w
Reformat(text, k, w) ==
    LET ms == AllMatches(text, 1)
    IN  SubSeq(text, 1, ms[k].end - 1) \o w
        \o SubSeq(text, MatchStart(ms[k + 1]), Len(text))

\* the matches of text followed by whitespace and then another match
Gaps(text) ==
    LET ms == AllMatches(text, 1)
    IN  { k \in 1..(Len(ms) - 1) :
            /\ ms[k].end < MatchStart(ms[k + 1])
            /\ \A i \in ms[k].end..(MatchStart(ms[k + 1]) - 1) :
                  text[i] \in Whitespace }

\* C7: replacing the whitespace between two tokens of a valid input (one
\* top-level term, no caret) by another non-empty whitespace string leaves
\* the returned Term unchanged.
C7_WhitespaceInsensitive ==
    (pc = "done" /\ Len(out) = 1 /\ \A i \in 1..Len(sexp) : sexp[i] # "^") =>
        \A k \in Gaps(sexp) : \A w \in Indents :
            parse_sexp(Reformat(sexp, k, w)) = result

----------------------------------------------------------------------------
(* parse_bool *)

W_yes == <<"y", "e", "s">>
W_true == <<"t", "r", "u", "e">>
W_no == <<"n", "o">>
W_false == <<"f", "a", "l", "s", "e">>
W_locked == <<"l", "o", "c", "k", "e", "d">>

\* parse_bool without the KiCad 7 spelling "true"
parse_bool_YesOnly(arr) ==
    IF arr.k = "str" THEN Returned(PyBool(TRUE))
    ELSE IF arr.k # "list" THEN Raised("TypeError")
    ELSE IF Len(arr.l) = 1 THEN Returned(PyBool(TRUE))
    ELSE IF Len(arr.l) = 0 THEN Raised("IndexError")
    ELSE Returned(PyBool(arr.l[2] = PyStr(W_yes)))

\* lines 69-74; len() of a number raises TypeError, arr[1] of an empty
\* list IndexError
parse_bool(arr) ==
    IF arr.k = "str" THEN Returned(PyBool(TRUE))
    ELSE IF arr.k # "list" THEN Raised("TypeError")
    ELSE IF Len(arr.l) = 1 THEN Returned(PyBool(TRUE))
    ELSE IF Len(arr.l) = 0 THEN Raised("IndexError")
    ELSE Returned(PyBool(arr.l[2] = PyStr(W_yes) \/ arr.l[2] = PyStr(W_true)))

\* no parse_sexp call is under way
ParseIdle ==
    /\ sexp = <<>>
    /\ pos = 1
    /\ stack = <<>>
    /\ out = <<>>
    /\ term = "none"
    /\ value = <<>>
    /\ pc = "idle"
    /\ result = Running

RECURSIVE Tuples(_, _)
Tuples(set, n) ==
    IF n = 0 THEN {<<>>}
    ELSE Tuples(set, n - 1)
         \cup { Append(t, e) : t \in { u \in Tuples(set, n - 1) :
                                          Len(u) = n - 1 },
                               e \in set }

\* what stands in a flag's list: its name, a spelling, a number, a list
BoolElems ==
    {PyStr(W_locked), PyStr(W_yes), PyStr(W_true), PyStr(W_no),
     PyStr(W_false), PyInt(1), PyList(<<PyStr(W_yes)>>)}

\* the arguments the decoders hand to parse_bool: a str or a list that
\* starts with the flag's name
BoolArgs ==
    {PyStr(W_locked), PyStr(W_yes), PyStr(W_no)}
    \cup { PyList(t) : t \in Tuples(BoolElems, MaxArgs) \ {<<>>} }

BoolInit ==
    /\ ParseIdle
    /\ call = "parse_bool"
    /\ arg \in BoolArgs
    /\ ret = Running
    /\ hints = {}

ParseBool ==
    /\ call = "parse_bool"
    /\ ret = Running
    /\ ret' = parse_bool(arg)
    /\ UNCHANGED <<parseVars, call, arg, hints>>

BoolNext == ParseBool

SpecBool == BoolInit /\ [][BoolNext]_vars

\* C8: parse_bool returns true exactly when its argument is a bare
\* symbol, a list holding only the flag's name, or a list whose second
\* element is yes or true; for every other argument (a second element no
\* among them) it returns false.
C8_ParseBool ==
    (call = "parse_bool" /\ ret # Running) =>
        LET isTrue ==
                \/ arg.k = "str"
                \/ arg.k = "list" /\ Len(arg.l) = 1
                \/ /\ arg.k = "list"
                   /\ Len(arg.l) >= 2
                   /\ arg.l[2].k = "str"
                   /\ arg.l[2].s \in {W_yes, W_true}
        IN  /\ isTrue => ret = Returned(PyBool(TRUE))
            /\ ~isTrue => ret = Returned(PyBool(FALSE))

\* the legacy spelling (locked true) was decoded
C8_Witness ==
    /\ call = "parse_bool"
    /\ arg = PyList(<<PyStr(W_locked), PyStr(W_true)>>)
    /\ ret = Returned(PyBool(TRUE))

\* (locked no) was decoded
C8_WitnessNo ==
    /\ call = "parse_bool"
    /\ arg = PyList(<<PyStr(W_locked), PyStr(W_no)>>)
    /\ ret = Returned(PyBool(FALSE))

----------------------------------------------------------------------------
(* Words of the file format *)

\* gritems.py: the names GrCurve and GrTextBox declare
GrWord ==
    [ gr_curve |->
        <<"g", "r", "_", "c", "u", "r", "v", "e">>,
      gr_text_box |->
        <<"g", "r", "_", "t", "e", "x", "t", "_", "b", "o", "x">>,
      text |->
        <<"t", "e", "x", "t">>,
      locked |->
        <<"l", "o", "c", "k", "e", "d">>,
      pts |->
        <<"p", "t", "s">>,
      width |->
        <<"w", "i", "d", "t", "h">>,
      stroke |->
        <<"s", "t", "r", "o", "k", "e">>,
      layer |->
        <<"l", "a", "y", "e", "r">>,
      uuid |->
        <<"u", "u", "i", "d">>,
      start |->
        <<"s", "t", "a", "r", "t">>,
      end |->
        <<"e", "n", "d">>,
      margins |->
        <<"m", "a", "r", "g", "i", "n", "s">>,
      angle |->
        <<"a", "n", "g", "l", "e">>,
      effects |->
        <<"e", "f", "f", "e", "c", "t", "s">>,
      border |->
        <<"b", "o", "r", "d", "e", "r">>,
      render_cache |->
        <<"r", "e", "n", "d", "e", "r", "_", "c", "a", "c", "h", "e">>,
      FCu |->
        <<"F", ".", "C", "u">> ]

\* brditems.py: the tokens Segment.from_sexpr and Stackup.from_sexpr read
BrdWord ==
    [ segment |->
        <<"s", "e", "g", "m", "e", "n", "t">>,
      start |->
        <<"s", "t", "a", "r", "t">>,
      end |->
        <<"e", "n", "d">>,
      width |->
        <<"w", "i", "d", "t", "h">>,
      layer |->
        <<"l", "a", "y", "e", "r">>,
      locked |->
        <<"l", "o", "c", "k", "e", "d">>,
      net |->
        <<"n", "e", "t">>,
      uuid |->
        <<"u", "u", "i", "d">>,
      stackup |->
        <<"s", "t", "a", "c", "k", "u", "p">>,
      copper_finish |->
        <<"c", "o", "p", "p", "e", "r", "_", "f", "i", "n", "i", "s", "h">>,
      dielectric_constraints |->
        <<"d", "i", "e", "l", "e", "c", "t", "r", "i", "c", "_", "c", "o", "n", "s", "t", "r", "a", "i", "n", "t", "s">>,
      edge_connector |->
        <<"e", "d", "g", "e", "_", "c", "o", "n", "n", "e", "c", "t", "o", "r">>,
      castellated_pads |->
        <<"c", "a", "s", "t", "e", "l", "l", "a", "t", "e", "d", "_", "p", "a", "d", "s">>,
      edge_plating |->
        <<"e", "d", "g", "e", "_", "p", "l", "a", "t", "i", "n", "g">> ]

\* fpitems.py: the tokens FpLine.from_sexpr reads
FpWord ==
    [ fp_line |-> <<"f", "p", "_", "l", "i", "n", "e">>,
      start |-> <<"s", "t", "a", "r", "t">>,
      end |-> <<"e", "n", "d">>,
      layer |-> <<"l", "a", "y", "e", "r">>,
      width |-> <<"w", "i", "d", "t", "h">>,
      stroke |-> <<"s", "t", "r", "o", "k", "e">>,
      locked |-> <<"l", "o", "c", "k", "e", "d">>,
      uuid |-> <<"u", "u", "i", "d">> ]

\* words of the dataclasses declared below for the cases of the generic
\* engine that no class under items/ declares
SchemaWord ==
    [ property |-> <<"p", "r", "o", "p", "e", "r", "t", "y">>,
      properties |-> <<"p", "r", "o", "p", "e", "r", "t", "i", "e", "s">>,
      key |-> <<"k", "e", "y">>,
      value |-> <<"v", "a", "l", "u", "e">>,
      sym |-> <<"s", "y", "m">>,
      named |-> <<"n", "a", "m", "e", "d">>,
      old |-> <<"o", "l", "d">>,
      pin |-> <<"p", "i", "n">>,
      kind |-> <<"k", "i", "n", "d">>,
      shape |-> <<"s", "h", "a", "p", "e">>,
      hide |-> <<"h", "i", "d", "e">>,
      hideName |-> <<"h", "i", "d", "e", "N", "a", "m", "e">>,
      hide_name |-> <<"h", "i", "d", "e", "_", "n", "a", "m", "e">>,
      length |-> <<"l", "e", "n", "g", "t", "h">>,
      size |-> <<"s", "i", "z", "e">>,
      dnp |-> <<"d", "n", "p">>,
      unplaced |-> <<"u", "n", "p", "l", "a", "c", "e", "d">>,
      circle |-> <<"c", "i", "r", "c", "l", "e">>,
      disc |-> <<"d", "i", "s", "c">>,
      arc |-> <<"a", "r", "c">>,
      radius |-> <<"r", "a", "d", "i", "u", "s">>,
      angle |-> <<"a", "n", "g", "l", "e">>,
      drawing |-> <<"d", "r", "a", "w", "i", "n", "g">>,
      shapes |-> <<"s", "h", "a", "p", "e", "s">>,
      outline |-> <<"o", "u", "t", "l", "i", "n", "e">>,
      curve |-> <<"c", "u", "r", "v", "e">> ]

\* words of the inputs that no class declares
OtherWord ==
    [ BCu |->
        <<"B", ".", "C", "u">>,
      unknown_token |->
        <<"u", "n", "k", "n", "o", "w", "n", "_", "t", "o", "k", "e", "n">>,
      zzz |->
        <<"z", "z", "z">>,
      hi |->
        <<"h", "i">> ]

----------------------------------------------------------------------------
(* Python objects and conversions *)

\* an instance of class cls: its field values in declaration order
PyObj(cls, vals) == [k |-> cls, s |-> <<>>, n |-> 0, l |-> vals]

\* a dict: its items as [key, value] lists, in insertion order
PyDict(items) == [k |-> "dict", s |-> <<>>, n |-> 0, l |-> items]

IsNumber(v) == v.k \in {"int", "float", "bool"}

\* the value of a number in units of 10^-FracDigits
Units(v) == IF v.k = "float" THEN v.n ELSE v.n * Unit

\* Python's ==: numbers compare by value (1 == 1.0, True == 1), lists
\* and objects element by element
RECURSIVE PyEq(_, _)
PyEq(a, b) ==
    IF IsNumber(a) /\ IsNumber(b) THEN Units(a) = Units(b)
    ELSE /\ a.k = b.k
         /\ a.s = b.s
         /\ Len(a.l) = Len(b.l)
         /\ \A i \in 1..Len(a.l) : PyEq(a.l[i], b.l[i])

DigitChar(d) ==
    CASE d = 0 -> "0" [] d = 1 -> "1" [] d = 2 -> "2" [] d = 3 -> "3"
      [] d = 4 -> "4" [] d = 5 -> "5" [] d = 6 -> "6" [] d = 7 -> "7"
      [] d = 8 -> "8" [] d = 9 -> "9"

\* the decimal digits of a natural number
RECURSIVE NatStr(_)
NatStr(i) ==
    IF i < 10 THEN <<DigitChar(i)>>
    ELSE NatStr(i \div 10) \o <<DigitChar(i % 10)>>

\* str(i) of an int
IntStr(i) == IF i < 0 THEN <<"-">> \o NatStr(-i) ELSE NatStr(i)

\* i written with exactly w digits
RECURSIVE Padded(_, _)
Padded(i, w) ==
    IF w = 0 THEN <<>>
    ELSE Padded(i \div 10, w - 1) \o <<DigitChar(i % 10)>>

\* str.rstrip(c)
RECURSIVE RStrip(_, _)
RStrip(chars, c) ==
    IF chars # <<>> /\ chars[Len(chars)] = c
    THEN RStrip(SubSeq(chars, 1, Len(chars) - 1), c)
    ELSE chars

\* repr of a float of u units: the shortest decimal, with at least one
\* digit after the point, and in the exponent form d.ddde-XX below 1e-04
FloatRepr(u) ==
    LET a == IF u < 0 THEN -u ELSE u
        frac == RStrip(Padded(a % Unit, FracDigits), "0")
        exp10 == Len(NatStr(a)) - 1 - FracDigits
        digs == RStrip(NatStr(a), "0")
    IN  (IF u < 0 THEN <<"-">> ELSE <<>>)
        \o (IF a # 0 /\ exp10 < -4
            THEN <<digs[1]>>
                 \o (IF Len(digs) > 1 THEN <<".">> \o Tail(digs) ELSE <<>>)
                 \o <<"e", "-">> \o Padded(-exp10, 2)
            ELSE NatStr(a \div Unit) \o <<".">>
                 \o (IF frac = <<>> THEN <<"0">> ELSE frac))

\* float('nan'), float('inf'), float('-inf'): s holds what str() and the
\* f format write for them
NonFinite ==
    { [k |-> "float", s |-> name, n |-> 0, l |-> <<>>] :
        name \in {<<"n", "a", "n">>, <<"i", "n", "f">>,
                  <<"-", "i", "n", "f">>} }

\* str(v) of a float
FloatToStr(v) == IF v \in NonFinite THEN v.s ELSE FloatRepr(v.n)

\* the literals float() and int() are handed here: sign, digits and, for
\* float(), a point followed by digits
IsIntLiteral(chars) ==
    LET i1 == IF At(chars, 1) \in {"+", "-"} THEN 2 ELSE 1
    IN  RunEnd(chars, i1, Digits) = Len(chars) + 1 /\ Len(chars) >= i1

IsFloatLiteral(chars) ==
    chars # <<>> /\ NumericRunEnd(chars, 1) = Len(chars) + 1

\* float(v)
ToFloat(v) ==
    CASE v.k \in {"int", "float", "bool"} -> Returned(PyFloat(Units(v)))
      [] v.k = "str" ->
            IF IsFloatLiteral(v.s)
            THEN Returned(PyFloat(Units(NumValue(v.s))))
            ELSE Raised("ValueError")
      [] OTHER -> Raised("TypeError")

\* int(v): a float is truncated towards zero
ToInt(v) ==
    CASE v.k \in {"int", "bool"} -> Returned(PyInt(v.n))
      [] v.k = "float" ->
            Returned(PyInt(IF v.n < 0 THEN -((-v.n) \div Unit)
                           ELSE v.n \div Unit))
      [] v.k = "str" ->
            IF IsIntLiteral(v.s) THEN Returned(NumValue(v.s))
            ELSE Raised("ValueError")
      [] OTHER -> Raised("TypeError")

\* str(v) of an atom; the repr of a list or an object is not modelled
ToStr(v) ==
    CASE v.k = "str" -> Returned(PyStr(v.s))
      [] v.k = "int" -> Returned(PyStr(IntStr(v.n)))
      [] v.k = "float" -> Returned(PyStr(FloatToStr(v)))
      [] v.k = "none" -> Returned(PyStr(<<"N", "o", "n", "e">>))
      [] OTHER -> Raised("unmodelled")

\* the items a for loop over v visits: the elements of a list, the
\* characters of a str
Iterate(v) ==
    CASE v.k = "list" -> Returned(PyList(v.l))
      [] v.k = "str" ->
            Returned(PyList([i \in 1..Len(v.s) |-> PyStr(<<v.s[i]>>)]))
      [] OTHER -> Raised("TypeError")

\* v[1:]
Rest(v) ==
    CASE v.k = "list" /\ v.l # <<>> -> Returned(PyList(Tail(v.l)))
      [] v.k = "list" /\ v.l = <<>> -> Returned(PyList(<<>>))
      [] v.k = "str" /\ v.s # <<>> -> Returned(PyStr(Tail(v.s)))
      [] v.k = "str" /\ v.s = <<>> -> Returned(PyStr(<<>>))
      [] OTHER -> Raised("TypeError")

\* v[i], counting from 0
Index(v, i) ==
    CASE v.k = "list" ->
            IF i < Len(v.l) THEN Returned(v.l[i + 1])
            ELSE Raised("IndexError")
      [] v.k = "str" ->
            IF i < Len(v.s) THEN Returned(PyStr(<<v.s[i + 1]>>))
            ELSE Raised("IndexError")
      [] OTHER -> Raised("TypeError")

----------------------------------------------------------------------------
(* Schema: the dataclasses the generic engine serves *)

\* type hints: a plain type, Optional[base], List[base] or Dict[str, base]
Plain(base) == [origin |-> "plain", base |-> base]
Optional(base) == [origin |-> "Optional", base |-> base]
ListOf(base) == [origin |-> "list", base |-> base]
DictOf(base) == [origin |-> "dict", base |-> base]

\* dataclasses.field: name, type hint, default and metadata
Field(name, type, default) ==
    [name |-> name, type |-> type, default |-> default,
     flatten |-> FALSE, force_empty |-> FALSE, precision |-> 0,
     case |-> "default", alias |-> <<>>]

\* gritems.py: class GrCurve(SexprAuto)
GrCurve ==
    [name |-> "GrCurve",
     sexpr_prefix |-> PyStr(GrWord.gr_curve),
     positional_args |-> <<>>,
     sexpr_case_convert |-> "none",
     fields |-> <<
        Field(W_locked, Optional("bool"), PyNone),
        Field(GrWord.pts, ListOf("Coordinate2D"), PyList(<<>>)),
        Field(GrWord.width, Optional("float"), PyNone),
        Field(GrWord.stroke, Optional("Stroke"), PyNone),
        Field(GrWord.layer, Optional("str"), PyNone),
        Field(GrWord.uuid, Optional("str"), PyNone) >>]

\* gritems.py: class GrTextBox(SexprAuto)
GrTextBox ==
    [name |-> "GrTextBox",
     sexpr_prefix |-> PyStr(GrWord.gr_text_box),
     positional_args |-> <<GrWord.text>>,
     sexpr_case_convert |-> "none",
     fields |-> <<
        Field(GrWord.text, Plain("str"), PyStr(<<>>)),
        Field(W_locked, Optional("bool"), PyNone),
        Field(GrWord.start, Optional("PositionStart"), PyNone),
        Field(GrWord.end, Optional("PositionEnd"), PyNone),
        Field(GrWord.margins, ListOf("float"), PyList(<<>>)),
        Field(GrWord.pts, ListOf("Coordinate2D"), PyList(<<>>)),
        Field(GrWord.angle, Optional("float"), PyNone),
        Field(GrWord.layer, Plain("str"), PyStr(GrWord.FCu)),
        Field(GrWord.uuid, Optional("str"), PyNone),
        Field(GrWord.effects, Optional("Effects"), PyNone),
        Field(GrWord.border, Optional("bool"), PyNone),
        Field(GrWord.stroke, Optional("Stroke"), PyNone),
        Field(GrWord.render_cache, Optional("RenderCache"), PyNone) >>]

\* the value class of a map field: a SexprAuto dataclass with the head tag
\* property, written (property "key" "value"); line 110 of sexpr.py stores
\* the key of the map in the attribute key of such a value
Property ==
    [name |-> "Property",
     sexpr_prefix |-> PyList(<<PyStr(SchemaWord.property)>>),
     positional_args |-> <<SchemaWord.key, SchemaWord.value>>,
     sexpr_case_convert |-> "none",
     fields |-> <<
        Field(SchemaWord.key, Plain("str"), PyStr(<<>>)),
        Field(SchemaWord.value, Plain("str"), PyStr(<<>>)) >>]

\* a SexprAuto dataclass with two map fields, Dict[str, Property]: one
\* declared with metadata flatten (lines 257-260 and 302), one without
PropertyMap ==
    [name |-> "PropertyMap",
     sexpr_prefix |-> PyList(<<PyStr(SchemaWord.sym)>>),
     positional_args |-> <<>>,
     sexpr_case_convert |-> "none",
     fields |-> <<
        [Field(SchemaWord.properties, DictOf("Property"), PyDict(<<>>))
            EXCEPT !.flatten = TRUE],
        Field(SchemaWord.named, DictOf("Property"), PyDict(<<>>)) >>]

\* a SexprAuto dataclass with the snake case rule, two positional fields
\* declared after a flag, a flag the case rule renames, a flag with an
\* alias, and two fields that answer to the head length: one by its name,
\* one by its alias
Pin ==
    [name |-> "Pin",
     sexpr_prefix |-> PyList(<<PyStr(SchemaWord.pin)>>),
     positional_args |-> <<SchemaWord.kind, SchemaWord.shape>>,
     sexpr_case_convert |-> "snake",
     fields |-> <<
        Field(SchemaWord.hide, Plain("bool"), PyBool(FALSE)),
        Field(SchemaWord.kind, Plain("str"), PyStr(<<>>)),
        Field(SchemaWord.shape, Plain("str"), PyStr(<<>>)),
        Field(SchemaWord.hideName, Optional("bool"), PyNone),
        [Field(SchemaWord.dnp, Optional("bool"), PyNone)
            EXCEPT !.alias = SchemaWord.unplaced],
        Field(SchemaWord.length, Optional("float"), PyNone),
        [Field(SchemaWord.size, Optional("float"), PyNone)
            EXCEPT !.alias = SchemaWord.length] >>]

\* three SexprAuto dataclasses for the elements of a collection: Circle,
\* Disc with the fields of Circle under a head tag of its own (a subclass
\* that overrides sexpr_prefix), and Arc with one field more
Circle ==
    [name |-> "Circle",
     sexpr_prefix |-> PyList(<<PyStr(SchemaWord.circle)>>),
     positional_args |-> <<>>,
     sexpr_case_convert |-> "none",
     fields |-> << Field(SchemaWord.radius, Optional("float"), PyNone) >>]

Disc ==
    [name |-> "Disc",
     sexpr_prefix |-> PyList(<<PyStr(SchemaWord.disc)>>),
     positional_args |-> <<>>,
     sexpr_case_convert |-> "none",
     fields |-> << Field(SchemaWord.radius, Optional("float"), PyNone) >>]

Arc ==
    [name |-> "Arc",
     sexpr_prefix |-> PyList(<<PyStr(SchemaWord.arc)>>),
     positional_args |-> <<>>,
     sexpr_case_convert |-> "none",
     fields |-> <<
        Field(SchemaWord.radius, Optional("float"), PyNone),
        Field(SchemaWord.angle, Optional("float"), PyNone) >>]

\* a SexprAuto dataclass with a flattened collection of Circle, and with
\* fields that answer to the same heads: circle is a member tag of shapes,
\* a tag of the type of outline and the name of the field circle; arc is a
\* tag of the type of curve and the name of the field arc
Drawing ==
    [name |-> "Drawing",
     sexpr_prefix |-> PyList(<<PyStr(SchemaWord.drawing)>>),
     positional_args |-> <<>>,
     sexpr_case_convert |-> "none",
     fields |-> <<
        [Field(SchemaWord.shapes, ListOf("Circle"), PyList(<<>>))
            EXCEPT !.flatten = TRUE],
        Field(SchemaWord.outline, Optional("Circle"), PyNone),
        Field(SchemaWord.circle, Optional("str"), PyNone),
        Field(SchemaWord.curve, Optional("Arc"), PyNone),
        Field(SchemaWord.arc, Optional("str"), PyNone) >>]

AutoClasses ==
    {GrCurve, GrTextBox, Property, PropertyMap, Pin, Circle, Disc, Arc,
     Drawing}

AutoNames == {C.name : C \in AutoClasses}

ClassNamed(name) == CHOOSE C \in AutoClasses : C.name = name

BuiltinTypes == {"bool", "str", "float", "int", "Rstr", "NoneType", "list"}

\* the classes of kiutils.items.common that the two dataclasses name in
\* their type hints; their code is not part of the model, the records
\* keep these fields at None or [] and the inputs hold no child for them
CommonClasses ==
    {"Coordinate2D", "Stroke", "PositionStart", "PositionEnd", "Effects",
     "RenderCache"}

\* getattr(typ, PFIELD, []) of a type, or of a value of that type
PrefixOfType(base) ==
    IF base \in AutoNames
    THEN ClassNamed(base).sexpr_prefix
    ELSE PyList(<<>>)

\* cls(): every field at its default
NewObject(C) ==
    PyObj(C.name, [i \in 1..Len(C.fields) |-> C.fields[i].default])

FieldIndex(C, name) ==
    CHOOSE i \in 1..Len(C.fields) : C.fields[i].name = name

\* str.lower() of one character
LowerChar(c) ==
    CASE c = "A" -> "a" [] c = "B" -> "b" [] c = "C" -> "c" [] c = "D" -> "d"
      [] c = "E" -> "e" [] c = "F" -> "f" [] c = "G" -> "g" [] c = "H" -> "h"
      [] c = "I" -> "i" [] c = "J" -> "j" [] c = "K" -> "k" [] c = "L" -> "l"
      [] c = "M" -> "m" [] c = "N" -> "n" [] c = "O" -> "o" [] c = "P" -> "p"
      [] c = "Q" -> "q" [] c = "R" -> "r" [] c = "S" -> "s" [] c = "T" -> "t"
      [] c = "U" -> "u" [] c = "V" -> "v" [] c = "W" -> "w" [] c = "X" -> "x"
      [] c = "Y" -> "y" [] c = "Z" -> "z"
      [] OTHER -> c

UpperCase == {"A", "B", "C", "D", "E", "F", "G", "H", "I", "J", "K", "L",
              "M", "N", "O", "P", "Q", "R", "S", "T", "U", "V", "W", "X",
              "Y", "Z"}

LowerCaseLetters == {LowerChar(c) : c \in UpperCase}

Lower(chars) == [i \in 1..Len(chars) |-> LowerChar(chars[i])]

\* re.sub(r"([A-Z][a-z])", r"_\1", name)
RECURSIVE Snake(_)
Snake(chars) ==
    IF chars = <<>> THEN <<>>
    ELSE IF Len(chars) >= 2 /\ chars[1] \in UpperCase
            /\ chars[2] \in LowerCaseLetters
    THEN <<"_", chars[1], chars[2]>> \o Snake(SubSeq(chars, 3, Len(chars)))
    ELSE <<chars[1]>> \o Snake(Tail(chars))

\* lines 205-213: SexprAuto._get_sexpr_name
get_sexpr_name(C, f) ==
    LET rule == IF f.case = "default" THEN C.sexpr_case_convert ELSE f.case
        name == CASE rule = "lower" -> Lower(f.name)
                  [] rule = "snake" -> Lower(Snake(f.name))
                  [] OTHER -> f.name
    IN  IF f.alias # <<>> THEN f.alias ELSE name

----------------------------------------------------------------------------
(* from_sexpr: the deserialization of the standard types, lines 158-195 *)

\* the element of a set of one element: Only({F(x) : x \in {e}}) is F(e),
\* with e worked out once however often F uses it
Only(S) == CHOOSE x \in S : TRUE

\* the first failure among results, or their values as one list
Collect(rs) ==
    IF \E i \in 1..Len(rs) : rs[i].status # "ok"
    THEN Raised(rs[CHOOSE i \in 1..Len(rs) :
                      /\ rs[i].status # "ok"
                      /\ \A j \in 1..(i - 1) : rs[j].status = "ok"].status)
    ELSE Returned(PyList([i \in 1..Len(rs) |-> rs[i].term]))

\* the parts reached when the parts are worked out one after the other and
\* the first failure ends the call: rs are the outcomes of the parts
Reached(rs) ==
    { i \in 1..Len(rs) : \A j \in 1..(i - 1) : rs[j].status = "ok" }

RECURSIVE Concat(_)
Concat(strs) ==
    IF strs = <<>> THEN <<>> ELSE strs[1].s \o Concat(Tail(strs))

\* lines 179-183: obj = obj + str(i) for i in exp
JoinStr(exp) ==
    LET items == Iterate(exp)
        parts == IF items.status = "ok"
                 THEN Collect([i \in 1..Len(items.term.l) |->
                                  ToStr(items.term.l[i])])
                 ELSE items
    IN  IF parts.status = "ok" THEN Returned(PyStr(Concat(parts.term.l)))
        ELSE parts

\* exp[0] if isinstance(exp, list) else exp
FirstOrSelf(exp) == IF exp.k = "list" THEN Index(exp, 0) ELSE Returned(exp)

RECURSIVE SexprAuto_from_sexpr(_, _)

\* from_sexpr(cls, full_exp, w_name) for a cls that is no generic alias
from_sexpr_plain(base, full_exp, w_name) ==
    LET exp == IF w_name THEN Rest(full_exp) ELSE Returned(full_exp)
        first == FirstOrSelf(exp.term)
    IN  IF exp.status # "ok" THEN exp
        ELSE CASE base \in AutoNames ->
                    SexprAuto_from_sexpr(ClassNamed(base), full_exp)
               [] base \notin BuiltinTypes -> Raised("unmodelled")
               [] base = "str" -> JoinStr(exp.term)
               [] base \in {"float", "int"} ->
                    Only({ IF x.status # "ok" THEN x
                           ELSE IF base = "float" THEN ToFloat(x.term)
                           ELSE ToInt(x.term) : x \in {first} })
               [] base = "bool" -> parse_bool(full_exp)
               [] base = "Rstr" -> Raised("unmodelled")
               [] OTHER -> Returned(PyNone)

\* hash(v) raises for a list and for a dict
Hashable(v) == v.k \notin {"list", "dict"}

\* d[key] = val
SetItem(d, key, val) ==
    IF \E i \in 1..Len(d.l) : PyEq(d.l[i].l[1], key)
    THEN PyDict([i \in 1..Len(d.l) |->
                    IF PyEq(d.l[i].l[1], key)
                    THEN PyList(<<d.l[i].l[1], val>>) ELSE d.l[i]])
    ELSE PyDict(Append(d.l, PyList(<<key, val>>)))

\* lines 169-173: every element of exp is stored under the key exp[0]
DictOfFirst(items, vals) ==
    IF items = <<>> THEN Returned(PyDict(<<>>))
    ELSE IF vals[1].status # "ok" THEN vals[1]
    ELSE IF ~Hashable(items[1]) THEN Raised("TypeError")
    ELSE IF Collect(vals).status # "ok" THEN Collect(vals)
    ELSE Returned(PyDict(<<PyList(<<items[1], vals[Len(vals)].term>>)>>))

\* from_sexpr(cls, full_exp, w_name) for a type hint
from_sexpr(type, full_exp, w_name) ==
    LET exp == IF w_name THEN Rest(full_exp) ELSE Returned(full_exp)
    IN  IF exp.status # "ok" THEN exp
        ELSE IF type.origin \in {"list", "dict"}
        THEN Only({ IF items.status # "ok" THEN items
                    ELSE Only({ IF type.origin = "list" THEN Collect(vals)
                                ELSE DictOfFirst(items.term.l, vals) :
                                vals \in {[i \in 1..Len(items.term.l) |->
                                    from_sexpr_plain(type.base,
                                        items.term.l[i], FALSE)]} }) :
                    items \in {Iterate(exp.term)} })
        ELSE from_sexpr_plain(type.base, full_exp,
                              type.origin = "Optional" \/ w_name)

----------------------------------------------------------------------------
(* SexprAuto.from_sexpr, lines 215-277 *)

IsPrefixAt(sub, chars, i) ==
    \A j \in 1..Len(sub) : At(chars, i + j - 1) = sub[j]

\* x in prefix: membership in a list, containment in a str
InPrefix(x, prefix) ==
    CASE prefix.k = "list" ->
            Returned(PyBool(\E i \in 1..Len(prefix.l) : PyEq(x, prefix.l[i])))
      [] prefix.k = "str" ->
            IF x.k = "str"
            THEN Returned(PyBool(\E i \in 1..(Len(prefix.s) + 1) :
                                    IsPrefixAt(x.s, prefix.s, i)))
            ELSE Raised("TypeError")
      [] OTHER -> Raised("TypeError")

\* type(val)
TypeOfValue(val) == IF val.k = "none" THEN "NoneType" ELSE val.k

\* lines 229-233: the names of the fields typed bool or Optional[bool]
Flags(C) ==
    { C.fields[i].name : i \in { j \in 1..Len(C.fields) :
        C.fields[j].type \in {Optional("bool"), Plain("bool")} } }

\* setattr(obj, name, val) for the i-th field
SetField(obj, i, val) == [obj EXCEPT !.l[i] = val]

\* setattr after a conversion that may have raised
SetResult(obj, i, r) ==
    IF r.status # "ok" THEN r ELSE Returned(SetField(obj, i, r.term))

\* the tests of lines 253, 257, 261 and 264-273 for the field f, in the
\* order the code makes them: "take", "skip" or an error. named tells
\* whether the head is the name of the field, own is head in the prefix
\* of the value the field holds, inner is head in the prefix of its type
Verdict(f, named, own, inner) ==
    IF f.flatten
    THEN IF f.type.origin \notin {"list", "dict"} THEN "skip"
         ELSE IF inner.status # "ok" THEN inner.status
         ELSE IF inner.term = PyBool(TRUE) THEN "take"
         ELSE "skip"
    ELSE IF named THEN "take"
    ELSE IF own.status # "ok" THEN own.status
    ELSE IF own.term = PyBool(TRUE) THEN "take"
    ELSE IF f.type.origin # "Optional" THEN "skip"
    ELSE IF inner.status # "ok" THEN inner.status
    ELSE IF inner.term = PyBool(TRUE) THEN "take"
    ELSE "skip"

\* the tests on the head of an item for the i-th field
Accepts(C, obj, i, head) ==
    Verdict(C.fields[i],
            PyEq(head, PyStr(get_sexpr_name(C, C.fields[i]))),
            InPrefix(head, PrefixOfType(obj.l[i].k)),
            InPrefix(head, PrefixOfType(C.fields[i].type.base)))

\* lines 254-255, 258-259 and 262: the i-th field takes the item; obj as
\* it is afterwards
TakeItem(C, obj, item, i) ==
    Only({ IF got.status # "ok" THEN got
           ELSE IF f.flatten /\ f.type.origin = "dict"
           THEN IF Index(item, 1).status # "ok" THEN Index(item, 1)
                ELSE IF ~Hashable(item.l[2]) THEN Raised("TypeError")
                ELSE Returned(SetField(obj, i,
                                SetItem(obj.l[i], item.l[2], got.term)))
           ELSE IF f.flatten
           THEN Returned(SetField(obj, i,
                                  PyList(Append(obj.l[i].l, got.term))))
           ELSE Returned(SetField(obj, i, got.term)) :
           f \in {C.fields[i]},
           got \in {from_sexpr(IF C.fields[i].flatten
                               THEN Plain(C.fields[i].type.base)
                               ELSE C.fields[i].type, item, TRUE)} })

\* the field loop without its break statements: every field that accepts
\* the item takes it
RECURSIVE BindField_NoBreak(_, _, _, _)
BindField_NoBreak(C, obj, item, i) ==
    IF i > Len(C.fields) THEN Returned(obj)
    ELSE
    Only({ IF head.status # "ok"
           THEN IF C.fields[i].flatten
                   /\ C.fields[i].type.origin \notin {"list", "dict"}
                THEN BindField_NoBreak(C, obj, item, i + 1)
                ELSE head
           ELSE Only({ CASE verdict = "take" ->
                            Only({ IF t.status # "ok" THEN t
                                   ELSE BindField_NoBreak(C, t.term, item,
                                                          i + 1) :
                                   t \in {TakeItem(C, obj, item, i)} })
                         [] verdict = "skip" ->
                            BindField_NoBreak(C, obj, item, i + 1)
                         [] OTHER -> Raised(verdict) :
                       verdict \in {Accepts(C, obj, i, head.term)} }) :
           head \in {Index(item, 0)} })

\* lines 244-275: the fields are tried in declaration order from the i-th
\* on; the first that accepts the item takes it, an item accepted by none
\* is dropped
RECURSIVE BindField(_, _, _, _)
BindField(C, obj, item, i) ==
    IF i > Len(C.fields) THEN Returned(obj)
    ELSE
    Only({ IF head.status # "ok"
           THEN IF C.fields[i].flatten
                   /\ C.fields[i].type.origin \notin {"list", "dict"}
                THEN BindField(C, obj, item, i + 1)
                ELSE head
           ELSE Only({ CASE verdict = "take" -> TakeItem(C, obj, item, i)
                         [] verdict = "skip" ->
                            BindField(C, obj, item, i + 1)
                         [] OTHER -> Raised(verdict) :
                       verdict \in {Accepts(C, obj, i, head.term)} }) :
           head \in {Index(item, 0)} })

\* the state of the loop after an item: st is [status, obj, idx] with idx
\* the positional_idx, r the outcome of handling the item, a new obj or
\* an error
After(st, r, idx) ==
    IF r.status # "ok" THEN [st EXCEPT !.status = r.status]
    ELSE [status |-> "ok", obj |-> r.term, idx |-> idx]

\* lines 236-239: the item goes to the positional field i
BindPositional(C, st, item, i) ==
    After(st,
          SetResult(st.obj, i,
                    from_sexpr_plain(TypeOfValue(st.obj.l[i]), item, FALSE)),
          st.idx + 1)

\* the loop body with the flag test made first
ItemStep_FlagFirst(C, st, item) ==
    IF item.k = "str" /\ item.s \in Flags(C)
    THEN [st EXCEPT !.obj = SetField(st.obj, FieldIndex(C, item.s),
                                     PyBool(TRUE))]
    ELSE IF item.k # "list" /\ st.idx < Len(C.positional_args)
    THEN BindPositional(C, st, item,
                        FieldIndex(C, C.positional_args[st.idx + 1]))
    ELSE After(st, BindField(C, st.obj, item, 1), st.idx)

\* lines 235-275: the loop body for one item
ItemStep(C, st, item) ==
    IF item.k # "list" /\ st.idx < Len(C.positional_args)
    THEN BindPositional(C, st, item,
                        FieldIndex(C, C.positional_args[st.idx + 1]))
    ELSE IF item.k = "str" /\ item.s \in Flags(C)
    THEN [st EXCEPT !.obj = SetField(st.obj, FieldIndex(C, item.s),
                                     PyBool(TRUE))]
    ELSE After(st, BindField(C, st.obj, item, 1), st.idx)

\* lines 234-275: the loop; s names the value of st, so that the state the
\* items read so far have led to is worked out once
RECURSIVE DecodeItems(_, _, _)
DecodeItems(C, st, items) ==
    Only({ IF items = <<>> \/ s.status # "ok" THEN s
           ELSE DecodeItems(C, ItemStep(C, s, items[1]), Tail(items)) :
           s \in {st} })

\* line 277: return obj, unless the loop raised
Outcome(st) ==
    IF st.status # "ok" THEN Raised(st.status) ELSE Returned(st.obj)

\* cls.from_sexpr(exp) for a class cls derived from SexprAuto
SexprAuto_from_sexpr(C, exp) ==
    LET rest == Rest(exp)
        items == IF rest.status = "ok" THEN Iterate(rest.term) ELSE rest
    IN  IF items.status # "ok" THEN items
        ELSE Outcome(DecodeItems(C, [status |-> "ok", obj |-> NewObject(C),
                                     idx |-> 0], items.term.l))

\* the field that takes a list item, lines 244-275: the first from the
\* i-th on whose tests accept the head; 0 when none does or a test raises
RECURSIVE Binder(_, _, _, _)
Binder(C, obj, item, i) ==
    IF i > Len(C.fields) THEN 0
    ELSE IF Index(item, 0).status # "ok"
    THEN IF C.fields[i].flatten
            /\ C.fields[i].type.origin \notin {"list", "dict"}
         THEN Binder(C, obj, item, i + 1)
         ELSE 0
    ELSE Only({ CASE verdict = "take" -> i
                  [] verdict = "skip" -> Binder(C, obj, item, i + 1)
                  [] OTHER -> 0 :
                verdict \in {Accepts(C, obj, i, Index(item, 0).term)} })

RECURSIVE AskedFromSexpr(_, _)

\* the classes from_sexpr(type, full_exp, w_name) asks get_type_hints for:
\* those of the elements decoded, every element a list reaches, the
\* first alone when it cannot be the key of a dict
AskedFrom(type, full_exp, w_name) ==
    LET exp == IF w_name THEN Rest(full_exp) ELSE Returned(full_exp)
        items == Iterate(exp.term)
    IN  IF exp.status # "ok" \/ type.base \notin AutoNames THEN {}
        ELSE IF type.origin \in {"list", "dict"} /\ items.status # "ok"
        THEN {}
        ELSE UNION { AskedFromSexpr(ClassNamed(type.base), e) :
                     e \in IF type.origin \notin {"list", "dict"}
                           THEN {full_exp}
                           ELSE { items.term.l[i] :
                                  i \in { j \in Reached(
                                            [k \in 1..Len(items.term.l) |->
                                                from_sexpr_plain(type.base,
                                                    items.term.l[k], FALSE)]) :
                                          \/ j = 1
                                          \/ type.origin = "list"
                                          \/ Hashable(items.term.l[1]) } } }

\* the classes the loop body asks for, for one item
AskedItem(C, st, item) ==
    IF item.k # "list" /\ st.idx < Len(C.positional_args)
    THEN AskedFrom(
            Plain(TypeOfValue(
                st.obj.l[FieldIndex(C, C.positional_args[st.idx + 1])])),
            item, FALSE)
    ELSE IF item.k = "str" /\ item.s \in Flags(C) THEN {}
    ELSE Only({ IF i = 0 THEN {}
                ELSE AskedFrom(IF C.fields[i].flatten
                               THEN Plain(C.fields[i].type.base)
                               ELSE C.fields[i].type, item, TRUE) :
                i \in {Binder(C, st.obj, item, 1)} })

\* lines 234-275: the state of the loop when it comes to the i-th item
Before(C, items, i) ==
    DecodeItems(C, [status |-> "ok", obj |-> NewObject(C), idx |-> 0],
                SubSeq(items, 1, i - 1))

\* the classes cls.from_sexpr(exp) asks get_type_hints for: its own at
\* line 228, then those of the children it decodes until one fails
AskedFromSexpr(C, exp) ==
    LET rest == Rest(exp)
        items == IF rest.status = "ok" THEN Iterate(rest.term) ELSE rest
    IN  {C.name}
        \cup (IF items.status # "ok" THEN {}
              ELSE UNION { Only({ IF st.status # "ok" THEN {}
                                  ELSE AskedItem(C, st, items.term.l[i]) :
                                  st \in {Before(C, items.term.l, i)} }) :
                            i \in 1..Len(items.term.l) })

----------------------------------------------------------------------------
(* The hand-written decoders of brditems.py *)

\* Position(): the class is imported from kiutils.items.common; its
\* attributes are X, Y and angle, as the to_sexpr methods read them
Position == PyObj("Position", <<PyFloat(0), PyFloat(0), PyNone>>)

\* Position.from_sexpr(item) of kiutils.items.common: (start 1 2) gives
\* X=1, Y=2; a third value is the angle
Position_from_sexpr(exp) ==
    IF exp.k # "list" THEN Raised("Exception")
    ELSE IF Len(exp.l) < 3 THEN Raised("IndexError")
    ELSE Returned(PyObj("Position",
            <<exp.l[2], exp.l[3],
              IF Len(exp.l) >= 4 THEN exp.l[4] ELSE PyNone>>))

\* the attributes of a Segment, in declaration order
SegmentAttrs == <<"start", "end", "width", "layer", "locked", "net", "uuid">>

\* Segment()
NewSegment ==
    PyObj("Segment", <<Position, Position, PyFloat(Unit \div 10),
                       PyStr(GrWord.FCu), PyBool(FALSE), PyInt(0),
                       PyStr(<<>>)>>)

\* the attributes of a Stackup, in declaration order
StackupAttrs ==
    <<"layers", "copperFinish", "dielectricContraints", "edgeConnector",
      "castellatedPads", "edgePlating">>

\* Stackup()
NewStackup ==
    PyObj("Stackup", <<PyList(<<>>), PyNone, PyNone, PyNone, PyBool(FALSE),
                       PyBool(FALSE)>>)

AttrIndex(attrs, name) == CHOOSE i \in 1..Len(attrs) : attrs[i] = name

\* object.name = r, r being the result of the right-hand side
SetAttr(obj, attrs, name, r) == SetResult(obj, AttrIndex(attrs, name), r)

\* lines 835-842: the loop body of Segment.from_sexpr for one item
SegmentStep(obj, item) ==
    LET head == Index(item, 0)
        Is(word) == PyEq(head.term, PyStr(word))
        Set(name, r) == SetAttr(obj, SegmentAttrs, name, r)
    IN  IF head.status # "ok" THEN head
        ELSE CASE Is(W_locked) -> Set("locked", parse_bool(item))
               [] Is(BrdWord.start) -> Set("start", Position_from_sexpr(item))
               [] Is(BrdWord.end) -> Set("end", Position_from_sexpr(item))
               [] Is(BrdWord.width) -> Set("width", Index(item, 1))
               [] Is(BrdWord.layer) -> Set("layer", Index(item, 1))
               [] Is(BrdWord.net) -> Set("net", Index(item, 1))
               [] Is(BrdWord.uuid) -> Set("uuid", Index(item, 1))
               [] OTHER -> Returned(obj)

\* lines 375-381: the loop body of Stackup.from_sexpr for one item
StackupStep(obj, item) ==
    LET head == Index(item, 0)
        Is(word) == PyEq(head.term, PyStr(word))
        Set(name, r) == SetAttr(obj, StackupAttrs, name, r)
    IN  IF head.status # "ok" THEN head
        ELSE CASE Is(BrdWord.layer) -> Raised("unmodelled")
               [] Is(BrdWord.copper_finish) ->
                    Set("copperFinish", Index(item, 1))
               [] Is(BrdWord.dielectric_constraints) ->
                    Set("dielectricContraints", Index(item, 1))
               [] Is(BrdWord.edge_connector) ->
                    Set("edgeConnector", Index(item, 1))
               [] Is(BrdWord.castellated_pads) ->
                    Set("castellatedPads", Returned(PyBool(TRUE)))
               [] Is(BrdWord.edge_plating) ->
                    Set("edgePlating", Returned(PyBool(TRUE)))
               [] OTHER -> Returned(obj)

\* the attributes of an FpLine, in declaration order
FpLineAttrs ==
    <<"start", "end", "layer", "width", "stroke", "locked", "uuid">>

\* FpLine(): width is 0.12
NewFpLine ==
    PyObj("FpLine", <<Position, Position, PyStr(GrWord.FCu),
                      PyFloat(12 * (Unit \div 100)), PyNone, PyBool(FALSE),
                      PyNone>>)

\* Stroke.from_sexpr(item) of kiutils.items.common: the Stroke it returns
\* is kept opaque, it holds the children it was built from
Stroke_from_sexpr(item) == Returned(PyObj("Stroke", Tail(item.l)))

\* a second assignment after the one that gave r
ThenSet(r, attrs, name, val) ==
    IF r.status # "ok" THEN r ELSE SetAttr(r.term, attrs, name, val)

\* fpitems.py lines 193-203: the loop body of FpLine.from_sexpr
FpLineStep(obj, item) ==
    LET head == Index(item, 0)
        Is(word) == PyEq(head.term, PyStr(word))
        Set(name, r) == SetAttr(obj, FpLineAttrs, name, r)
    IN  IF head.status # "ok" THEN head
        ELSE CASE Is(FpWord.locked) -> Set("locked", parse_bool(item))
               [] Is(FpWord.start) -> Set("start", Position_from_sexpr(item))
               [] Is(FpWord.end) -> Set("end", Position_from_sexpr(item))
               [] Is(FpWord.layer) -> Set("layer", Index(item, 1))
               [] Is(FpWord.uuid) -> Set("uuid", Index(item, 1))
               [] Is(FpWord.width) ->
                    ThenSet(Set("width", Index(item, 1)), FpLineAttrs,
                            "stroke", Returned(PyNone))
               [] Is(FpWord.stroke) ->
                    ThenSet(Set("stroke", Stroke_from_sexpr(item)),
                            FpLineAttrs, "width", Returned(PyNone))
               [] OTHER -> Returned(obj)

\* the loop body of the decoder named
LoopBody(decoder, obj, item) ==
    CASE decoder = "Segment.from_sexpr" -> SegmentStep(obj, item)
      [] decoder = "Stackup.from_sexpr" -> StackupStep(obj, item)
      [] decoder = "FpLine.from_sexpr" -> FpLineStep(obj, item)

\* for item in exp: the loop body applied to each item in turn, r being
\* the result so far
RECURSIVE ForEach(_, _, _)
ForEach(decoder, r, items) ==
    Only({ IF items = <<>> \/ q.status # "ok" THEN q
           ELSE ForEach(decoder, LoopBody(decoder, q.term, items[1]),
                        Tail(items)) :
           q \in {r} })

\* Handwritten without the comparison of exp[0] with the token
Handwritten_NoHeadCheck(decoder, tag, new, exp) ==
    IF exp.k # "list" THEN Raised("Exception")
    ELSE IF exp.l = <<>> THEN Raised("IndexError")
    ELSE ForEach(decoder, Returned(new), exp.l)

\* the two checks every hand-written from_sexpr opens with, then its loop
Handwritten(decoder, tag, new, exp) ==
    IF exp.k # "list" THEN Raised("Exception")
    ELSE IF exp.l = <<>> THEN Raised("IndexError")
    ELSE IF ~PyEq(exp.l[1], PyStr(tag)) THEN Raised("Exception")
    ELSE ForEach(decoder, Returned(new), exp.l)

\* lines 814-843: Segment.from_sexpr
Segment_from_sexpr(exp) ==
    Handwritten("Segment.from_sexpr", BrdWord.segment, NewSegment, exp)

\* lines 354-382: Stackup.from_sexpr
Stackup_from_sexpr(exp) ==
    Handwritten("Stackup.from_sexpr", BrdWord.stackup, NewStackup, exp)

\* fpitems.py lines 171-205: FpLine.from_sexpr
FpLine_from_sexpr(exp) ==
    Handwritten("FpLine.from_sexpr", FpWord.fp_line, NewFpLine, exp)

----------------------------------------------------------------------------
(* Decoding as a state machine: one call of a from_sexpr on a parsed term *)

\* the ways a flag named word can stand among the children of a term
FlagForms(word) ==
    {PyList(<<PyStr(word)>>), PyList(<<PyStr(word), PyStr(W_yes)>>),
     PyList(<<PyStr(word), PyStr(W_true)>>), PyList(<<PyStr(word), PyStr(W_no)>>),
     PyStr(word)}

\* children no decoder has a field for
StrayChildren ==
    {PyList(<<PyStr(OtherWord.unknown_token), PyInt(1), PyInt(2), PyInt(3)>>),
     PyInt(7)}

Half == PyFloat(5 * (Unit \div 10))

\* the head tag a term for the decoder is expected to carry
TagOf(decoder) ==
    CASE decoder = "GrCurve.from_sexpr" -> GrWord.gr_curve
      [] decoder = "GrTextBox.from_sexpr" -> GrWord.gr_text_box
      [] decoder = "Segment.from_sexpr" -> BrdWord.segment
      [] decoder = "Stackup.from_sexpr" -> BrdWord.stackup
      [] decoder = "FpLine.from_sexpr" -> FpWord.fp_line

ChildrenOf(decoder) ==
    CASE decoder = "GrCurve.from_sexpr" ->
            FlagForms(W_locked) \cup StrayChildren
            \cup {PyList(<<PyStr(GrWord.width), Half>>),
                  PyList(<<PyStr(GrWord.layer), PyStr(OtherWord.BCu)>>),
                  PyStr(OtherWord.zzz)}
      [] decoder = "GrTextBox.from_sexpr" ->
            FlagForms(W_locked) \cup StrayChildren
            \cup {PyList(<<PyStr(GrWord.border), PyStr(W_no)>>),
                  PyList(<<PyStr(GrWord.layer), PyStr(OtherWord.BCu)>>),
                  PyStr(OtherWord.hi)}
      [] decoder = "Segment.from_sexpr" ->
            FlagForms(W_locked) \cup StrayChildren
            \cup {PyList(<<PyStr(BrdWord.width), Half>>),
                  PyList(<<PyStr(BrdWord.layer), PyStr(OtherWord.BCu)>>),
                  PyList(<<PyStr(BrdWord.net), PyInt(5)>>),
                  PyStr(OtherWord.zzz)}
      [] decoder = "Stackup.from_sexpr" ->
            FlagForms(BrdWord.castellated_pads) \cup StrayChildren
            \cup {PyList(<<PyStr(BrdWord.edge_plating)>>),
                  PyList(<<PyStr(BrdWord.edge_plating), PyStr(W_no)>>),
                  PyList(<<PyStr(BrdWord.copper_finish), PyStr(OtherWord.hi)>>),
                  PyStr(OtherWord.zzz)}
      [] decoder = "FpLine.from_sexpr" ->
            StrayChildren
            \cup {PyList(<<PyStr(FpWord.locked)>>),
                  PyList(<<PyStr(FpWord.width), Half>>),
                  PyList(<<PyStr(FpWord.layer), PyStr(OtherWord.BCu)>>),
                  PyList(<<PyStr(FpWord.uuid), PyStr(OtherWord.hi)>>),
                  PyList(<<PyStr(FpWord.stroke),
                           PyList(<<PyStr(FpWord.width), Half>>)>>),
                  PyStr(OtherWord.zzz)}

Decoders ==
    {"GrCurve.from_sexpr", "GrTextBox.from_sexpr", "Segment.from_sexpr",
     "Stackup.from_sexpr", "FpLine.from_sexpr"}

\* the terms handed to a decoder: a head, right or wrong, followed by up
\* to MaxItems children; and three that are no such list
DecodeArgs(decoder) ==
    { PyList(<<PyStr(head)>> \o kids) :
        head \in {TagOf(decoder), OtherWord.zzz},
        kids \in Tuples(ChildrenOf(decoder), MaxItems) }
    \cup {PyStr(TagOf(decoder)), PyInt(5), PyList(<<>>)}

DecodeInit ==
    /\ ParseIdle
    /\ call \in Decoders
    /\ arg \in DecodeArgs(call)
    /\ ret = Running
    /\ hints = {}

\* a decoder runs: r is what it returns or raises, asked the classes whose
\* type hints it asks get_type_hints for
Decode(decoder, r, asked) ==
    /\ call = decoder
    /\ ret = Running
    /\ ret' = r
    /\ hints' = hints \cup asked
    /\ UNCHANGED <<parseVars, call, arg>>

DecodeGrCurve ==
    Decode("GrCurve.from_sexpr", SexprAuto_from_sexpr(GrCurve, arg),
           {GrCurve.name})

DecodeGrTextBox ==
    Decode("GrTextBox.from_sexpr", SexprAuto_from_sexpr(GrTextBox, arg),
           {GrTextBox.name})

DecodeSegment == Decode("Segment.from_sexpr", Segment_from_sexpr(arg), {})

DecodeStackup == Decode("Stackup.from_sexpr", Stackup_from_sexpr(arg), {})

DecodeFpLine == Decode("FpLine.from_sexpr", FpLine_from_sexpr(arg), {})

DecodeNext ==
    \/ DecodeGrCurve
    \/ DecodeGrTextBox
    \/ DecodeSegment
    \/ DecodeStackup
    \/ DecodeFpLine

SpecDecode == DecodeInit /\ [][DecodeNext]_vars

\* every input of the decoders stays inside what the model covers
DecodeModelled == ret.status # "unmodelled"

\* the boolean fields of the decoded classes: the token of the field and
\* its place among the values of the record
BoolFields(decoder) ==
    CASE decoder = "GrCurve.from_sexpr" ->
            {[token |-> W_locked, idx |-> FieldIndex(GrCurve, W_locked)]}
      [] decoder = "GrTextBox.from_sexpr" ->
            {[token |-> W_locked, idx |-> FieldIndex(GrTextBox, W_locked)],
             [token |-> GrWord.border,
              idx |-> FieldIndex(GrTextBox, GrWord.border)]}
      [] decoder = "Segment.from_sexpr" ->
            {[token |-> W_locked, idx |-> AttrIndex(SegmentAttrs, "locked")]}
      [] decoder = "Stackup.from_sexpr" ->
            {[token |-> BrdWord.castellated_pads,
              idx |-> AttrIndex(StackupAttrs, "castellatedPads")],
             [token |-> BrdWord.edge_plating,
              idx |-> AttrIndex(StackupAttrs, "edgePlating")]}
      [] OTHER -> {}

\* the list children of the decoded term whose head is the token
ChildrenNamed(token) ==
    LET Named(x) == x.k = "list" /\ x.l # <<>> /\ x.l[1] = PyStr(token)
    IN  SelectSeq(Tail(arg.l), Named)

\* the decoded term is a list with the decoder's head tag, the decoder
\* returned a record, and the token stands nowhere as a bare symbol
DecodedWithout(token) ==
    /\ call \in Decoders
    /\ ret.status = "ok"
    /\ arg.k = "list" /\ arg.l # <<>>
    /\ arg.l[1] = PyStr(TagOf(call))
    /\ \A i \in 2..Len(arg.l) : arg.l[i] # PyStr(token)

\* C9: a boolean field is true after decoding a term whose child for it
\* is (name), (name yes) or (name true) and false (or unset) after
\* decoding a term whose child is (name no) or that has no such child
C9_BooleanChild ==
    \A bf \in BoolFields(call) :
        DecodedWithout(bf.token) =>
            LET kids == ChildrenNamed(bf.token)
                last == kids[Len(kids)]
                val == ret.term.l[bf.idx]
            IN  IF kids = <<>> THEN val \in {PyBool(FALSE), PyNone}
                ELSE /\ last \in {PyList(<<PyStr(bf.token)>>),
                                  PyList(<<PyStr(bf.token), PyStr(W_yes)>>),
                                  PyList(<<PyStr(bf.token), PyStr(W_true)>>)}
                        => val = PyBool(TRUE)
                     /\ last = PyList(<<PyStr(bf.token), PyStr(W_no)>>)
                        => val \in {PyBool(FALSE), PyNone}

\* C10: SexprAuto.from_sexpr returns a record only for a list whose first
\* element is the class's sexpr_prefix
C10_HeadTagChecked ==
    (/\ call \in {"GrCurve.from_sexpr", "GrTextBox.from_sexpr"}
     /\ ret.status = "ok")
    => /\ arg.k = "list"
       /\ arg.l # <<>>
       /\ arg.l[1] = PyStr(TagOf(call))

\* the hand-written decoders of the model
HandDecoders ==
    {"Segment.from_sexpr", "Stackup.from_sexpr", "FpLine.from_sexpr"}

\* the decoded argument is no list, or a list whose first element is not
\* the decoder's token (an empty list has no first element)
NotTagged ==
    \/ arg.k # "list"
    \/ arg.l = <<>>
    \/ arg.l[1] # PyStr(TagOf(call))

\* C11: a hand-written from_sexpr raises an exception and returns no
\* record when its argument is not a list or when the first element of
\* the list is not the token of its type
C11_HandwrittenChecksTag ==
    (call \in HandDecoders /\ ret # Running /\ NotTagged)
    => ret.status \in {"Exception", "IndexError"}

\* Segment.from_sexpr has raised on a list whose head is another symbol
C11_Witness ==
    /\ call = "Segment.from_sexpr"
    /\ arg.k = "list" /\ Len(arg.l) > 1
    /\ arg.l[1] = PyStr(OtherWord.zzz)
    /\ ret.status = "Exception"

\* Stackup.from_sexpr has raised on a str
C11_WitnessNoList ==
    /\ call = "Stackup.from_sexpr"
    /\ arg.k = "str"
    /\ ret.status = "Exception"

\* the decoder named by call, applied to a term
DecodeOf(decoder, exp) ==
    CASE decoder = "GrCurve.from_sexpr" -> SexprAuto_from_sexpr(GrCurve, exp)
      [] decoder = "GrTextBox.from_sexpr" ->
            SexprAuto_from_sexpr(GrTextBox, exp)
      [] decoder = "Segment.from_sexpr" -> Segment_from_sexpr(exp)
      [] decoder = "Stackup.from_sexpr" -> Stackup_from_sexpr(exp)
      [] decoder = "FpLine.from_sexpr" -> FpLine_from_sexpr(exp)

\* children matching no field of any decoded class: a list with an
\* unknown head, a stray number, an unknown bare symbol
UnknownChildren == StrayChildren \cup {PyStr(OtherWord.zzz)}

\* the term without its unknown children
WithoutUnknown(exp) ==
    LET Known(x) == x \notin UnknownChildren
    IN  PyList(<<exp.l[1]>> \o SelectSeq(Tail(exp.l), Known))

\* C12: decoding a term with extra children that match no field raises
\* no error and gives every field the value it has when the extra
\* children are absent
C12_UnknownChildTolerated ==
    (call \in Decoders /\ ret # Running /\ ~NotTagged)
    => \A base \in {DecodeOf(call, WithoutUnknown(arg))} :
          base.status = "ok" => ret = base

\* the fields a decoder binds by a token: the token, the place of the
\* field among the values of the record and the declared default
\* (positional fields are bound by position and have no token)
AutoTokenFields(C) ==
    { [token |-> get_sexpr_name(C, C.fields[i]), idx |-> i,
       default |-> C.fields[i].default] :
        i \in {j \in 1..Len(C.fields) :
                 \A p \in 1..Len(C.positional_args) :
                    C.positional_args[p] # C.fields[j].name} }

\* the same for a hand-written decoder, from the tokens its loop compares
HandTokenFields(attrs, new, tokens) ==
    { [token |-> tokens[i], idx |-> i, default |-> new.l[i]] :
        i \in 1..Len(attrs) }

TokenFields(decoder) ==
    CASE decoder = "GrCurve.from_sexpr" -> AutoTokenFields(GrCurve)
      [] decoder = "GrTextBox.from_sexpr" -> AutoTokenFields(GrTextBox)
      [] decoder = "Segment.from_sexpr" ->
            HandTokenFields(SegmentAttrs, NewSegment,
                <<BrdWord.start, BrdWord.end, BrdWord.width, BrdWord.layer,
                  BrdWord.locked, BrdWord.net, BrdWord.uuid>>)
      [] decoder = "Stackup.from_sexpr" ->
            HandTokenFields(StackupAttrs, NewStackup,
                <<BrdWord.layer, BrdWord.copper_finish,
                  BrdWord.dielectric_constraints, BrdWord.edge_connector,
                  BrdWord.castellated_pads, BrdWord.edge_plating>>)
      [] decoder = "FpLine.from_sexpr" ->
            HandTokenFields(FpLineAttrs, NewFpLine,
                <<FpWord.start, FpWord.end, FpWord.layer, FpWord.width,
                  FpWord.stroke, FpWord.locked, FpWord.uuid>>)

\* the token stands among the children of the decoded term, as the head
\* of a list or as a bare symbol
Occurs(token) ==
    \E i \in 2..Len(arg.l) :
        \/ arg.l[i] = PyStr(token)
        \/ /\ arg.l[i].k = "list"
           /\ arg.l[i].l # <<>>
           /\ arg.l[i].l[1] = PyStr(token)

\* C13: after decode, every field whose own token never occurred in the
\* input holds its declared default, whatever other tokens occurred
C13_AbsentFieldKeepsDefault ==
    (call \in Decoders /\ ret.status = "ok")
    => \A tf \in TokenFields(call) :
          ~Occurs(tf.token) => ret.term.l[tf.idx] = tf.default

----------------------------------------------------------------------------
(* Serialization: val_to_str, maybe_to_sexpr and SexprAuto.to_sexpr *)

\* an Rstr: a str written without quotes
PyRstr(chars) == [k |-> "rstr", s |-> chars, n |-> 0, l |-> <<>>]

\* typ=None
NoType == [origin |-> "none", base |-> "none"]

\* the tuples _sexpr_inter_tuple returns: (val, typ) and (val, name, typ)
Tuple2(val, typ) ==
    [k |-> "tuple", s |-> <<>>, n |-> 2, l |-> <<val>>, typ |-> typ]
Tuple3(val, name, typ) ==
    [k |-> "tuple", s |-> name, n |-> 3, l |-> <<val>>, typ |-> typ]

ValueKinds ==
    {"str", "rstr", "int", "float", "bool", "none", "list", "tuple", "dict"}

Spaces(n) == [i \in 1..n |-> " "]

\* f"{val:.{digits}f}" for a float of u units: the nearest multiple of
\* 10^-digits (the floats of the model lie on no midpoint), the sign kept
\* even when the digits are all zero
Fixed(u, digits) ==
    LET a == IF u < 0 THEN -u ELSE u
        scale == Pow10(FracDigits - digits)
        q == (a + scale \div 2) \div scale
    IN  (IF u < 0 THEN <<"-">> ELSE <<>>) \o NatStr(q \div Pow10(digits))
        \o <<".">> \o Padded(q % Pow10(digits), digits)

\* line 116
FloatStr(u) == RStrip(RStrip(Fixed(u, 6), "0"), ".")

\* line 116 for any float: round() and the f format leave nan and inf as
\* they are, and rstrip finds nothing to strip in them
FloatText(v) == IF v \in NonFinite THEN v.s ELSE FloatStr(v.n)

\* line 295: f"{val:.{precision}f}"
FixedText(v, precision) ==
    IF v \in NonFinite THEN v.s ELSE Fixed(v.n, precision)

\* val.replace('"', '\\"')
RECURSIVE EscapeQuotes(_)
EscapeQuotes(chars) ==
    IF chars = <<>> THEN <<>>
    ELSE (IF chars[1] = "\"" THEN <<"\\", "\"">> ELSE <<chars[1]>>)
         \o EscapeQuotes(Tail(chars))

\* the texts of the parts joined, or the first failure among them
Joined(rs) ==
    IF Collect(rs).status # "ok" THEN Collect(rs)
    ELSE Returned(PyStr(Concat(Collect(rs).term.l)))

\* an instance of the class C with the attributes of val, an object of
\* the class D
RebuiltAs(C, D, val) ==
    LET Same(j) == { i \in 1..Len(D.fields) :
                        D.fields[i].name = C.fields[j].name }
    IN  IF \E i \in 1..Len(D.fields) :
              \A j \in 1..Len(C.fields) : i \notin Same(j)
        THEN Raised("TypeError")
        ELSE Returned(PyObj(C.name,
                [j \in 1..Len(C.fields) |->
                    IF Same(j) = {} THEN C.fields[j].default
                    ELSE val.l[Only(Same(j))]]))

\* line 82: typ(**val.__dict__), an instance of the class named base with
\* the attributes of val; a TypeError when val has an attribute the class
\* has no field for, an AttributeError when val is no object
Rebuilt(base, val) ==
    IF val.k \notin AutoNames THEN Raised("AttributeError")
    ELSE RebuiltAs(ClassNamed(base), ClassNamed(val.k), val)

\* bool(x) of a str
Truthy(x) == x.s # <<>>

\* line 108: getattr(v, PFIELD)[0] of a value of a dict
PrefixOfValue(v) ==
    IF v.k \in AutoNames THEN Index(PrefixOfType(v.k), 0)
    ELSE Raised("AttributeError")

\* v.name = k for v an object of the class C, v as it is afterwards
SetAttrOf(C, v, name, k) ==
    IF \E i \in 1..Len(C.fields) : C.fields[i].name = name
    THEN Returned(SetField(v, FieldIndex(C, name), k))
    ELSE Raised("unmodelled")

\* line 110: v.key = k, v as it is afterwards; the objects of the model
\* hold the attributes their class declares and no other
SetKey(v, k) == SetAttrOf(ClassNamed(v.k), v, SchemaWord.key, k)

\* the type of the elements of a list written under the hint typ
ElemType(typ) ==
    CASE typ.origin = "list" -> Plain(typ.base)
      [] typ.origin = "dict" -> Plain("str")
      [] OTHER -> NoType

RECURSIVE val_to_str(_, _)
RECURSIVE maybe_to_sexpr(_, _, _, _, _)
RECURSIVE SexprAuto_to_sexpr(_, _, _, _)

\* lines 107-113: one item of a dict, k its key and v its value
ItemText(k, v) ==
    Only({ IF prefix.status # "ok" THEN prefix
           ELSE Only({ IF keyed.status # "ok" THEN keyed
                       ELSE maybe_to_sexpr(keyed.term,
                                IF Truthy(prefix.term) THEN <<>> ELSE k.s,
                                1, FALSE, NoType) :
                       keyed \in {IF Truthy(prefix.term) THEN SetKey(v, k)
                                  ELSE Returned(v)} }) :
           prefix \in {PrefixOfValue(v)} })

\* lines 77-123
val_to_str(val, typ) ==
    IF typ.origin = "plain" /\ typ.base \in AutoNames
    THEN IF val.k = "list" THEN Raised("TypeError")
         ELSE Only({ IF o.status # "ok" THEN o
                     ELSE SexprAuto_to_sexpr(ClassNamed(typ.base), o.term,
                                             0, FALSE) :
                     o \in {Rebuilt(typ.base, val)} })
    ELSE IF typ.origin = "plain" /\ typ.base \notin BuiltinTypes
    THEN Raised("unmodelled")
    ELSE IF val.k \in AutoNames
    THEN SexprAuto_to_sexpr(ClassNamed(val.k), val, 0, FALSE)
    ELSE IF val.k \notin ValueKinds THEN Raised("unmodelled")
    ELSE IF typ.origin = "Optional" /\ val.k # "none"
    THEN val_to_str(val, Plain(typ.base))
    ELSE CASE val.k = "bool" ->
                Returned(PyStr(IF val.n = 1 THEN W_yes ELSE W_no))
           [] val.k = "list" ->
                IF typ.origin \notin {"none", "list", "dict"}
                THEN Raised("IndexError")
                ELSE Joined([i \in 1..Len(val.l) |->
                        maybe_to_sexpr(val.l[i], <<>>, 1, FALSE,
                                       ElemType(typ))])
           [] val.k = "dict" ->
                Joined([i \in 1..Len(val.l) |->
                        ItemText(val.l[i].l[1], val.l[i].l[2])])
           [] val.k = "float" -> Returned(PyStr(FloatText(val)))
           [] val.k = "int" -> Returned(PyStr(IntStr(val.n)))
           [] val.k = "rstr" -> Returned(PyStr(val.s))
           [] val.k = "str" ->
                IF typ = Plain("Rstr") THEN Returned(PyStr(val.s))
                ELSE Returned(PyStr(<<"\"">> \o EscapeQuotes(val.s)
                                    \o <<"\"">>))
           [] val.k = "none" /\ typ = Plain("Rstr") ->
                Returned(PyStr(<<"N", "o", "n", "e">>))
           [] OTHER -> Returned(PyStr(<<>>))

\* lines 141-149: v, the text of the value, behind its indentation and
\* inside parentheses with the name when there is one
Wrapped(v, name, indent, newline) ==
    IF v.status # "ok" THEN v
    ELSE IF v.term.s = <<>> THEN Returned(PyStr(<<>>))
    ELSE IF name = <<>> THEN Returned(PyStr(Spaces(indent) \o v.term.s))
    ELSE Returned(PyStr(Spaces(indent) \o <<"(">> \o name \o <<" ">>
                        \o v.term.s \o <<")">>
                        \o (IF newline THEN <<"\n">> ELSE <<>>)))

\* lines 126-149
maybe_to_sexpr(val, name, indent, newline, typ) ==
    IF val.k = "none" THEN Returned(PyStr(<<>>))
    ELSE Wrapped(IF val.k = "tuple"
                 THEN maybe_to_sexpr(val.l[1], val.s, 1, FALSE, val.typ)
                 ELSE val_to_str(val, typ),
                 name, indent, newline)

\* lines 279-305: SexprAuto._sexpr_inter_tuple
sexpr_inter_tuple(C, obj, i, no_name) ==
    LET f == C.fields[i]
        val == obj.l[i]
        ser_name == get_sexpr_name(C, f)
        fixed == f.precision # 0 /\ val.k = "float"
        val2 == IF fixed THEN PyRstr(FixedText(val, f.precision)) ELSE val
        typ2 == IF fixed THEN Plain("Rstr") ELSE f.type
    IN  IF f.force_empty /\ val.k = "list" /\ val.l = <<>>
        THEN PyRstr(<<"(">> \o ser_name \o <<")">>)
        ELSE IF \/ val2.k \notin ValueKinds
                \/ typ2.origin = "plain" /\ typ2.base \notin BuiltinTypes
                \/ no_name
                \/ f.flatten
        THEN Tuple2(val2, typ2)
        ELSE Tuple3(val2, ser_name, typ2)

\* lines 307-325: SexprAuto.to_sexpr
SexprAuto_to_sexpr(C, obj, indent, newline) ==
    LET name == Index(C.sexpr_prefix, 0)
        parts == PyList([i \in 1..Len(C.fields) |->
                    sexpr_inter_tuple(C, obj, i,
                        \E j \in 1..Len(C.positional_args) :
                            C.positional_args[j] = C.fields[i].name)])
    IN  IF name.status # "ok" THEN name
        ELSE maybe_to_sexpr(parts, name.term.s, indent, newline, NoType)

----------------------------------------------------------------------------
(* What a serialization leaves behind: line 110 stores the key of a map   *)
(* in its value, and get_type_hints keeps what it worked out, lines 34-36 *)

\* the texts of the fields of obj, as maybe_to_sexpr works them out in turn
FieldTexts(C, obj) ==
    [i \in 1..Len(C.fields) |->
        maybe_to_sexpr(sexpr_inter_tuple(C, obj, i,
                           \E j \in 1..Len(C.positional_args) :
                               C.positional_args[j] = C.fields[i].name),
                       <<>>, 1, FALSE, NoType)]

\* the texts of the elements of a list, of the items of a dict
PartTexts(val, typ) ==
    [i \in 1..Len(val.l) |->
        IF val.k = "dict" THEN ItemText(val.l[i].l[1], val.l[i].l[2])
        ELSE maybe_to_sexpr(val.l[i], <<>>, 1, FALSE, ElemType(typ))]

\* the value of a dict as line 110 leaves it
Keyed(k, v) ==
    Only({ IF prefix.status = "ok" /\ Truthy(prefix.term)
           THEN Only({ IF keyed.status = "ok" THEN keyed.term ELSE v :
                       keyed \in {SetKey(v, k)} })
           ELSE v :
           prefix \in {PrefixOfValue(v)} })

RECURSIVE AfterValToStr(_, _)
RECURSIVE AfterToSexpr(_, _)
RECURSIVE Carried(_, _, _, _)

\* lines 82-83: val, an object of the class D, once the instance of the
\* class C rebuilt from it has been written; the instance holds the
\* attributes of val themselves
Carried(C, D, val, rebuilt) ==
    Only({ [val EXCEPT !.l =
                [i \in 1..Len(D.fields) |->
                    after.l[FieldIndex(C, D.fields[i].name)]]] :
           after \in {AfterToSexpr(C, rebuilt)} })

\* obj once obj.to_sexpr() has returned or raised
AfterToSexpr(C, obj) ==
    IF Index(C.sexpr_prefix, 0).status # "ok" THEN obj
    ELSE [obj EXCEPT !.l =
            [i \in 1..Len(C.fields) |->
                IF i \in Reached(FieldTexts(C, obj))
                THEN AfterValToStr(obj.l[i], C.fields[i].type)
                ELSE obj.l[i]]]

\* val once val_to_str(val, typ) has returned or raised
AfterValToStr(val, typ) ==
    IF typ.origin = "plain" /\ typ.base \in AutoNames
    THEN IF val.k = "list" THEN val
         ELSE Only({ IF o.status # "ok" THEN val
                     ELSE Carried(ClassNamed(typ.base), ClassNamed(val.k),
                                  val, o.term) :
                     o \in {Rebuilt(typ.base, val)} })
    ELSE IF val.k \in AutoNames THEN AfterToSexpr(ClassNamed(val.k), val)
    ELSE IF typ.origin = "Optional" /\ val.k # "none"
    THEN AfterValToStr(val, Plain(typ.base))
    ELSE IF \/ val.k = "list" /\ typ.origin \in {"none", "list", "dict"}
            \/ val.k = "dict"
    THEN Only({ [val EXCEPT !.l =
                    [i \in 1..Len(val.l) |->
                        IF i \notin reached THEN val.l[i]
                        ELSE IF val.k = "dict"
                        THEN PyList(<<val.l[i].l[1],
                                AfterValToStr(Keyed(val.l[i].l[1],
                                                    val.l[i].l[2]),
                                              NoType)>>)
                        ELSE AfterValToStr(val.l[i], ElemType(typ))]] :
                reached \in {Reached(PartTexts(val, typ))} })
    ELSE val

RECURSIVE AskedValToStr(_, _)
RECURSIVE AskedToSexpr(_, _)

\* the classes obj.to_sexpr() asks get_type_hints for: its own for each of
\* its fields at line 283, then those of the values it writes
AskedToSexpr(C, obj) ==
    (IF C.fields = <<>> THEN {} ELSE {C.name})
    \cup (IF Index(C.sexpr_prefix, 0).status # "ok" THEN {}
          ELSE UNION { AskedValToStr(obj.l[i], C.fields[i].type) :
                        i \in Reached(FieldTexts(C, obj)) })

\* the classes val_to_str(val, typ) asks get_type_hints for
AskedValToStr(val, typ) ==
    IF typ.origin = "plain" /\ typ.base \in AutoNames
    THEN IF val.k = "list" THEN {}
         ELSE Only({ IF o.status # "ok" THEN {}
                     ELSE AskedToSexpr(ClassNamed(typ.base), o.term) :
                     o \in {Rebuilt(typ.base, val)} })
    ELSE IF val.k \in AutoNames THEN AskedToSexpr(ClassNamed(val.k), val)
    ELSE IF typ.origin = "Optional" /\ val.k # "none"
    THEN AskedValToStr(val, Plain(typ.base))
    ELSE IF \/ val.k = "list" /\ typ.origin \in {"none", "list", "dict"}
            \/ val.k = "dict"
    THEN UNION { AskedValToStr(IF val.k = "dict"
                               THEN Keyed(val.l[i].l[1], val.l[i].l[2])
                               ELSE val.l[i],
                               ElemType(IF val.k = "dict" THEN NoType
                                        ELSE typ)) :
                   i \in Reached(PartTexts(val, typ)) }
    ELSE {}

----------------------------------------------------------------------------
(* The round trip: to_sexpr, parse_sexp, from_sexpr *)

\* a float of the model that 6 fractional digits cannot hold
Tiny == PyFloat(Unit \div Pow10(7))

\* the records written: every combination of the values below, the
\* fields typed with a class of kiutils.items.common left unset
GrCurveRecords ==
    { PyObj("GrCurve", <<locked, PyList(<<>>), width, PyNone, layer, uuid>>) :
        locked \in {PyNone, PyBool(TRUE), PyBool(FALSE)},
        width \in {PyNone, Half, PyFloat(2 * Unit),
                   PyFloat(-125 * (Unit \div 100)), Tiny},
        layer \in {PyNone, PyStr(OtherWord.BCu), PyStr(<<>>)},
        uuid \in {PyNone, PyStr(OtherWord.hi)} }

GrTextBoxRecords ==
    { PyObj("GrTextBox",
            <<text, locked, PyNone, PyNone, margins, PyList(<<>>), angle,
              layer, PyNone, PyNone, border, PyNone, PyNone>>) :
        text \in {PyStr(<<>>), PyStr(OtherWord.hi), PyStr(<<"a", " ", "b">>)},
        locked \in {PyNone, PyBool(TRUE), PyBool(FALSE)},
        margins \in {PyList(<<>>), PyList(<<PyFloat(Unit), Half>>)},
        angle \in {PyNone, PyFloat(90 * Unit)},
        layer \in {PyStr(GrWord.FCu), PyStr(OtherWord.BCu)},
        border \in {PyNone, PyBool(TRUE)} }

RoundInit ==
    /\ ParseIdle
    /\ call = "round_trip"
    /\ arg \in GrCurveRecords \cup GrTextBoxRecords
    /\ ret = Running
    /\ hints = {}

\* v.to_sexpr(): the text becomes the input of parse_sexp
ToSexpr ==
    /\ call = "round_trip"
    /\ pc = "idle"
    /\ \E text \in {SexprAuto_to_sexpr(ClassNamed(arg.k), arg, 0, FALSE)} :
           IF text.status = "ok"
           THEN /\ sexp' = text.term.s
                /\ pc' = "scan"
                /\ ret' = ret
           ELSE /\ sexp' = sexp
                /\ pc' = "fail"
                /\ ret' = text
    /\ hints' = hints \cup {arg.k}
    /\ UNCHANGED <<pos, stack, out, term, value, result, call, arg>>

\* cls.from_sexpr(parse_sexp(text))
FromParsed ==
    /\ call = "round_trip"
    /\ pc = "done"
    /\ ret = Running
    /\ ret' = SexprAuto_from_sexpr(ClassNamed(arg.k), result.term)
    /\ hints' = hints \cup {arg.k}
    /\ UNCHANGED <<parseVars, call, arg>>

RoundNext ==
    \/ ToSexpr
    \/ ReadBrackl
    \/ ReadBrackr
    \/ ReadNum
    \/ ReadSq
    \/ ReadS
    \/ ParseEnd
    \/ FromParsed

SpecRound == RoundInit /\ [][RoundNext]_vars

\* every float in v is a multiple of 10^-6
RECURSIVE SixDigits(_)
SixDigits(v) ==
    /\ v.k = "float" => v.n % Pow10(FracDigits - 6) = 0
    /\ \A i \in 1..Len(v.l) : SixDigits(v.l[i])

\* C1: a record whose floats have at most 6 fractional digits is written,
\* parsed and decoded without a failure, and the record decoded equals
\* the record written
C1_RoundTrip ==
    (call = "round_trip" /\ SixDigits(arg))
    => /\ pc # "fail"
       /\ ret.status # "running" => ret.status = "ok" /\ PyEq(ret.term, arg)

\* the text written by to_sexpr opens a list with the head tag
HeadedBy(text, tag) ==
    /\ Len(text) >= Len(tag) + 2
    /\ text[1] = "("
    /\ SubSeq(text, 2, Len(tag) + 1) = tag
    /\ text[Len(tag) + 2] \in {" ", ")"}

\* C14: to_sexpr of every record of a SexprAuto class, the all-defaults
\* record included, writes a list whose first element is the full head
\* tag of the class
C14_HeadTagWritten ==
    (call = "round_trip" /\ pc \notin {"idle", "fail"})
    => HeadedBy(sexp, ClassNamed(arg.k).sexpr_prefix.s)

----------------------------------------------------------------------------
(* The hand-written to_sexpr methods *)

\* dequote(s) of kiutils.utils.strings: each " of the str becomes \"
dequote(v) == EscapeQuotes(v.s)

\* f"{x}": the characters of str(x)
Fmt(v) == ToStr(v).term.s

\* ' ' * indent
indents(indent) == Spaces(indent)

\* '\n' if newline else ''
endline(newline) == IF newline THEN <<"\n">> ELSE <<>>

\* a part of the text written only when the attribute is not None
Unless(v, chars) == IF v = PyNone THEN <<>> ELSE chars

\* brditems.py lines 845-859: Segment.to_sexpr
Segment_to_sexpr(obj, indent, newline) ==
    LET at(name) == obj.l[AttrIndex(SegmentAttrs, name)]
        locked == IF at("locked") = PyBool(TRUE)
                  THEN <<"(", " ", "l", "o", "c", "k", "e", "d", " ", "y", "e", "s", " ", ")">>
                  ELSE <<>>
    IN
        indents(indent) \o <<"(", "s", "e", "g", "m", "e", "n", "t">>
        \o locked \o <<" ", "(", "s", "t", "a", "r", "t", " ">>
        \o Fmt(at("start").l[1]) \o <<" ">> \o Fmt(at("start").l[2])
        \o <<")", " ", "(", "e", "n", "d", " ">> \o Fmt(at("end").l[1])
        \o <<" ">> \o Fmt(at("end").l[2])
        \o <<")", " ", "(", "w", "i", "d", "t", "h", " ">>
        \o Fmt(at("width"))
        \o <<")", " ", "(", "l", "a", "y", "e", "r", " ", "\"">>
        \o dequote(at("layer"))
        \o <<"\"", ")", " ", "(", "n", "e", "t", " ">> \o Fmt(at("net"))
        \o <<")", " ", "(", "u", "u", "i", "d", " ", "\"">>
        \o dequote(at("uuid")) \o <<"\"", ")", ")">> \o endline(newline)

\* the attributes of a StackupSubLayer, in declaration order
StackupSubLayerAttrs == <<"thickness", "material", "epsilonR", "lossTangent">>

\* brditems.py lines 174-192: StackupSubLayer.to_sexpr
StackupSubLayer_to_sexpr(obj, indent, newline) ==
    LET at(name) == obj.l[AttrIndex(StackupSubLayerAttrs, name)]
        mat == Unless(at("material"),
                   <<" ", "(", "m", "a", "t", "e", "r", "i", "a", "l", " ", "\"">>
                   \o dequote(at("material")) \o <<"\"", ")">>)
        er == Unless(at("epsilonR"),
                   <<" ", "(", "e", "p", "s", "i", "l", "o", "n", "_", "r", " ">>
                   \o Fmt(at("epsilonR")) \o <<")">>)
        lt == Unless(at("lossTangent"),
                   <<" ", "(", "l", "o", "s", "s", "_", "t", "a", "n", "g", "e", "n", "t", " ">>
                   \o Fmt(at("lossTangent")) \o <<")">>)
    IN
        indents(indent)
        \o <<"a", "d", "d", "s", "u", "b", "l", "a", "y", "e", "r", " ", "(", "t", "h", "i", "c", "k", "n", "e", "s", "s", " ">>
        \o Fmt(at("thickness")) \o <<")">> \o mat \o er \o lt
        \o endline(newline)

\* the attributes of a StackupLayer, in declaration order
StackupLayerAttrs ==
    <<"name", "type", "color", "thickness", "material", "epsilonR",
      "lossTangent", "subLayers">>

\* lines 317-318: for layer in self.subLayers
RECURSIVE SubLayersText(_, _)
SubLayersText(layers, indent) ==
    IF layers = <<>> THEN <<>>
    ELSE <<"\n">> \o StackupSubLayer_to_sexpr(layers[1], indent + 2, FALSE)
         \o SubLayersText(Tail(layers), indent)

\* brditems.py lines 296-320: StackupLayer.to_sexpr
StackupLayer_to_sexpr(obj, indent, newline) ==
    LET at(name) == obj.l[AttrIndex(StackupLayerAttrs, name)]
        color == Unless(at("color"),
                   <<" ", "(", "c", "o", "l", "o", "r", " ", "\"">>
                   \o dequote(at("color")) \o <<"\"", ")">>)
        material == Unless(at("material"),
                   <<" ", "(", "m", "a", "t", "e", "r", "i", "a", "l", " ", "\"">>
                   \o dequote(at("material")) \o <<"\"", ")">>)
        thickness == Unless(at("thickness"),
                   <<" ", "(", "t", "h", "i", "c", "k", "n", "e", "s", "s", " ">>
                   \o Fmt(at("thickness")) \o <<")">>)
        epsilon_r == Unless(at("epsilonR"),
                   <<" ", "(", "e", "p", "s", "i", "l", "o", "n", "_", "r", " ">>
                   \o Fmt(at("epsilonR")) \o <<")">>)
        loss_tangent == Unless(at("lossTangent"),
                   <<" ", "(", "l", "o", "s", "s", "_", "t", "a", "n", "g", "e", "n", "t", " ">>
                   \o Fmt(at("lossTangent")) \o <<")">>)
    IN
        indents(indent) \o <<"(", "l", "a", "y", "e", "r", " ", "\"">>
        \o dequote(at("name"))
        \o <<"\"", " ", "(", "t", "y", "p", "e", " ", "\"">>
        \o Fmt(at("type")) \o <<"\"", ")">> \o color \o thickness
        \o material \o epsilon_r \o loss_tangent
        \o SubLayersText(at("subLayers").l, indent) \o <<")">>
        \o endline(newline)

\* lines 397-398: for layer in self.layers
RECURSIVE LayersText(_, _)
LayersText(layers, indent) ==
    IF layers = <<>> THEN <<>>
    ELSE StackupLayer_to_sexpr(layers[1], indent + 2, TRUE)
         \o LayersText(Tail(layers), indent)

\* brditems.py lines 384-406: Stackup.to_sexpr
Stackup_to_sexpr(obj, indent, newline) ==
    LET at(name) == obj.l[AttrIndex(StackupAttrs, name)]
        copperFinish == Unless(at("copperFinish"),
                   indents(indent)
                   \o <<" ", " ", "(", "c", "o", "p", "p", "e", "r", "_", "f", "i", "n", "i", "s", "h", " ", "\"">>
                   \o dequote(at("copperFinish")) \o <<"\"", ")", "\n">>)
        dielectric == Unless(at("dielectricContraints"),
                   indents(indent)
                   \o <<" ", " ", "(", "d", "i", "e", "l", "e", "c", "t", "r", "i", "c", "_", "c", "o", "n", "s", "t", "r", "a", "i", "n", "t", "s", " ">>
                   \o Fmt(at("dielectricContraints")) \o <<")", "\n">>)
        edgeConnector == Unless(at("edgeConnector"),
                   indents(indent)
                   \o <<" ", " ", "(", "e", "d", "g", "e", "_", "c", "o", "n", "n", "e", "c", "t", "o", "r", " ">>
                   \o Fmt(at("edgeConnector")) \o <<")", "\n">>)
        castellated == IF at("castellatedPads") = PyBool(TRUE)
                       THEN
                         indents(indent)
                         \o <<" ", " ", "(", "c", "a", "s", "t", "e", "l", "l", "a", "t", "e", "d", "_", "p", "a", "d", "s", " ", "y", "e", "s", ")", "\n">>
                       ELSE <<>>
        edgePlating == IF at("edgePlating") = PyBool(TRUE)
                       THEN
                         indents(indent)
                         \o <<" ", " ", "(", "e", "d", "g", "e", "_", "p", "l", "a", "t", "i", "n", "g", " ", "y", "e", "s", ")", "\n">>
                       ELSE <<>>
    IN
        indents(indent) \o <<"(", "s", "t", "a", "c", "k", "u", "p", "\n">>
        \o LayersText(at("layers").l, indent) \o copperFinish \o dielectric
        \o edgeConnector \o castellated \o edgePlating \o indents(indent)
        \o <<")">> \o endline(newline)

\* the attributes of a Target, in declaration order
TargetAttrs == <<"type", "position", "size", "width", "layer", "uuid">>

\* brditems.py lines 1391-1404: Target.to_sexpr
Target_to_sexpr(obj, indent, newline) ==
    LET at(name) == obj.l[AttrIndex(TargetAttrs, name)]
    IN
        indents(indent) \o <<"(", "t", "a", "r", "g", "e", "t", " ">>
        \o Fmt(at("type")) \o <<" ", "(", "a", "t", " ">>
        \o Fmt(at("position").l[1]) \o <<" ">> \o Fmt(at("position").l[2])
        \o <<")", " ", "(", "s", "i", "z", "e", " ">> \o Fmt(at("size"))
        \o <<")", " ", "(", "w", "i", "d", "t", "h", " ">>
        \o Fmt(at("width"))
        \o <<")", " ", "(", "l", "a", "y", "e", "r", " ", "\"">>
        \o Fmt(at("layer"))
        \o <<"\"", ")", " ", "(", "u", "u", "i", "d", " ", "\"">>
        \o dequote(at("uuid")) \o <<"\"", ")", ")">> \o endline(newline)

\* the attributes of a GrLine, in declaration order
GrLineAttrs ==
    <<"start", "end", "angle", "layer", "width", "uuid", "locked", "stroke">>

\* gritems.py lines 254-273: GrLine.to_sexpr; Stroke.to_sexpr belongs to
\* kiutils.items.common and the records written hold no stroke
GrLine_to_sexpr(obj, indent, newline) ==
    LET at(name) == obj.l[AttrIndex(GrLineAttrs, name)]
        locked == IF at("locked") = PyBool(TRUE)
                  THEN <<"(", "l", "o", "c", "k", "e", "d", " ", "y", "e", "s", ")">>
                  ELSE <<>>
        uuid == Unless(at("uuid"),
                   <<" ", "(", " ", "u", "u", "i", "d", " ", "\"">>
                   \o dequote(at("uuid")) \o <<"\"", " ", ")">>)
        layer == Unless(at("layer"),
                   <<" ", "(", "l", "a", "y", "e", "r", " ", "\"">>
                   \o dequote(at("layer")) \o <<"\"", ")">>)
        angle == Unless(at("angle"),
                   <<" ", "(", "a", "n", "g", "l", "e", " ">>
                   \o Fmt(at("angle")))
        width == Unless(at("width"),
                   <<" ", "(", "w", "i", "d", "t", "h", " ">>
                   \o Fmt(at("width")) \o <<")">>)
    IN
        indents(indent)
        \o <<"(", "g", "r", "_", "l", "i", "n", "e", " ", "(", "s", "t", "a", "r", "t", " ">>
        \o Fmt(at("start").l[1]) \o <<" ">> \o Fmt(at("start").l[2])
        \o <<")", " ", "(", "e", "n", "d", " ">> \o Fmt(at("end").l[1])
        \o <<" ">> \o Fmt(at("end").l[2]) \o <<")">> \o angle \o locked
        \o layer \o width \o uuid \o <<")">> \o endline(newline)

----------------------------------------------------------------------------
(* Encoding as a state machine: one call of a to_sexpr on a record *)

\* a SexprAuto dataclass whose float field declares metadata precision=2,
\* the case lines 293-296 of sexpr.py serve; no class under items/
\* declares one
WithPrecision ==
    [name |-> "WithPrecision",
     sexpr_prefix |-> PyList(<<PyStr(<<"w", "p">>)>>),
     positional_args |-> <<>>,
     sexpr_case_convert |-> "none",
     fields |-> <<
        [Field(GrWord.width, Plain("float"), PyFloat(0))
            EXCEPT !.precision = 2] >>]

Quoted == PyStr(<<"a", "\"", "b">>)

\* the floats written: 0.1, 0.5, 2.0, 1.234, 0.0000001, nan, inf, -inf
Floats ==
    {PyFloat(Unit \div 10), Half, PyFloat(2 * Unit),
     PyFloat(1234 * (Unit \div 1000)), Tiny} \cup NonFinite

SegmentRecords ==
    { PyObj("Segment", <<start, Position, width, layer, locked, PyInt(5),
                         uuid>>) :
        start \in {Position, PyObj("Position", <<PyInt(1), PyInt(2), PyNone>>)},
        width \in Floats,
        layer \in {PyStr(GrWord.FCu), Quoted},
        locked \in {PyBool(TRUE), PyBool(FALSE)},
        uuid \in {PyStr(<<>>), PyStr(OtherWord.hi)} }

StackupSubLayerRecords ==
    { PyObj("StackupSubLayer", <<Half, material, PyNone, PyNone>>) :
        material \in {PyNone, Quoted} }

StackupLayerRecords ==
    { PyObj("StackupLayer",
            <<name, type, color, thickness, PyNone, PyNone, PyNone,
              PyList(subLayers)>>) :
        name \in {PyStr(GrWord.FCu), Quoted},
        type \in {PyStr(OtherWord.hi), Quoted},
        color \in {PyNone, Quoted},
        thickness \in {PyNone, Half},
        subLayers \in {<<>>} \cup {<<x>> : x \in StackupSubLayerRecords} }

StackupRecords ==
    { PyObj("Stackup",
            <<PyList(layers), copperFinish, PyNone, edgeConnector,
              castellatedPads, edgePlating>>) :
        layers \in {<<>>,
                    <<PyObj("StackupLayer",
                            <<PyStr(GrWord.FCu), PyStr(OtherWord.hi), PyNone,
                              Half, PyNone, PyNone, PyNone, PyList(<<>>)>>)>>},
        copperFinish \in {PyNone, Quoted},
        edgeConnector \in {PyNone, PyStr(W_yes)},
        castellatedPads \in {PyBool(TRUE), PyBool(FALSE)},
        edgePlating \in {PyBool(TRUE), PyBool(FALSE)} }

TargetRecords ==
    { PyObj("Target", <<PyStr(<<"x">>), Position, size, width, layer,
                        PyStr(OtherWord.hi)>>) :
        size \in {PyInt(0), Half},
        width \in {PyFloat(Unit \div 10), PyFloat(2 * Unit)},
        layer \in {PyStr(GrWord.FCu), Quoted} }

GrLineRecords ==
    { PyObj("GrLine", <<Position, Position, angle, layer, width, uuid,
                        locked, PyNone>>) :
        angle \in {PyNone, PyFloat(90 * Unit)},
        layer \in {PyNone, PyStr(GrWord.FCu)},
        width \in {PyNone, Half, PyFloat(2 * Unit)},
        uuid \in {PyNone, PyStr(OtherWord.hi)},
        locked \in {PyBool(TRUE), PyBool(FALSE)} }

\* records of GrCurve holding a float that is no number
GrCurveNonFinite ==
    { PyObj("GrCurve", <<PyNone, PyList(<<>>), width, PyNone, PyNone,
                         PyNone>>) : width \in NonFinite }

WithPrecisionRecords == { PyObj("WithPrecision", <<width>>) : width \in Floats }

Encoders ==
    {"Segment.to_sexpr", "Stackup.to_sexpr", "StackupLayer.to_sexpr",
     "Target.to_sexpr", "GrLine.to_sexpr", "GrCurve.to_sexpr",
     "GrTextBox.to_sexpr", "WithPrecision.to_sexpr"}

RecordsOf(encoder) ==
    CASE encoder = "Segment.to_sexpr" -> SegmentRecords
      [] encoder = "Stackup.to_sexpr" -> StackupRecords
      [] encoder = "StackupLayer.to_sexpr" -> StackupLayerRecords
      [] encoder = "Target.to_sexpr" -> TargetRecords
      [] encoder = "GrLine.to_sexpr" -> GrLineRecords
      [] encoder = "GrCurve.to_sexpr" -> GrCurveRecords \cup GrCurveNonFinite
      [] encoder = "GrTextBox.to_sexpr" -> GrTextBoxRecords
      [] encoder = "WithPrecision.to_sexpr" -> WithPrecisionRecords

\* the text a hand-written to_sexpr returns
Text(chars) == Returned(PyStr(chars))

\* the to_sexpr named, applied to a record
EncodeOf(encoder, obj, indent, newline) ==
    CASE encoder = "Segment.to_sexpr" ->
            Text(Segment_to_sexpr(obj, indent, newline))
      [] encoder = "Stackup.to_sexpr" ->
            Text(Stackup_to_sexpr(obj, indent, newline))
      [] encoder = "StackupLayer.to_sexpr" ->
            Text(StackupLayer_to_sexpr(obj, indent, newline))
      [] encoder = "Target.to_sexpr" ->
            Text(Target_to_sexpr(obj, indent, newline))
      [] encoder = "GrLine.to_sexpr" ->
            Text(GrLine_to_sexpr(obj, indent, newline))
      [] encoder = "GrCurve.to_sexpr" ->
            SexprAuto_to_sexpr(GrCurve, obj, indent, newline)
      [] encoder = "GrTextBox.to_sexpr" ->
            SexprAuto_to_sexpr(GrTextBox, obj, indent, newline)
      [] encoder = "WithPrecision.to_sexpr" ->
            SexprAuto_to_sexpr(WithPrecision, obj, indent, newline)

\* the classes the to_sexpr named asks get_type_hints for: the hand-written
\* ones ask for none
EncodeAsked(encoder, obj) ==
    CASE encoder = "GrCurve.to_sexpr" -> AskedToSexpr(GrCurve, obj)
      [] encoder = "GrTextBox.to_sexpr" -> AskedToSexpr(GrTextBox, obj)
      [] encoder = "WithPrecision.to_sexpr" -> AskedToSexpr(WithPrecision, obj)
      [] OTHER -> {}

\* the arguments of the call: self, indent, newline
EncodeInit ==
    /\ ParseIdle
    /\ call \in Encoders
    /\ arg \in { PyList(<<obj, PyInt(indent), PyBool(newline)>>) :
                    obj \in RecordsOf(call), indent \in 0..MaxIndent,
                    newline \in BOOLEAN }
    /\ ret = Running
    /\ hints = {}

Self == arg.l[1]
Indent == arg.l[2].n
Newline == arg.l[3] = PyBool(TRUE)

Encode(encoder) ==
    /\ call = encoder
    /\ ret = Running
    /\ ret' = EncodeOf(encoder, Self, Indent, Newline)
    /\ hints' = hints \cup EncodeAsked(encoder, Self)
    /\ UNCHANGED <<parseVars, call, arg>>

EncodeSegment == Encode("Segment.to_sexpr")
EncodeStackup == Encode("Stackup.to_sexpr")
EncodeStackupLayer == Encode("StackupLayer.to_sexpr")
EncodeTarget == Encode("Target.to_sexpr")
EncodeGrLine == Encode("GrLine.to_sexpr")
EncodeGrCurve == Encode("GrCurve.to_sexpr")
EncodeGrTextBox == Encode("GrTextBox.to_sexpr")
EncodeWithPrecision == Encode("WithPrecision.to_sexpr")

EncodeNext ==
    \/ EncodeSegment
    \/ EncodeStackup
    \/ EncodeStackupLayer
    \/ EncodeTarget
    \/ EncodeGrLine
    \/ EncodeGrCurve
    \/ EncodeGrTextBox
    \/ EncodeWithPrecision

SpecEncode == EncodeInit /\ [][EncodeNext]_vars

\* every record written stays inside what the model covers
EncodeModelled == ret.status # "unmodelled"

\* the text holds the characters sub somewhere
HasText(chars, sub) == \E i \in 1..Len(chars) : IsPrefixAt(sub, chars, i)

\* the float fields written as (width v): the place of the field among
\* the values of the record and the fractional digits it is rounded to
WidthField(encoder) ==
    CASE encoder = "Segment.to_sexpr" ->
            {[idx |-> AttrIndex(SegmentAttrs, "width"), digits |-> 6]}
      [] encoder = "Target.to_sexpr" ->
            {[idx |-> AttrIndex(TargetAttrs, "width"), digits |-> 6]}
      [] encoder = "GrLine.to_sexpr" ->
            {[idx |-> AttrIndex(GrLineAttrs, "width"), digits |-> 6]}
      [] encoder = "GrCurve.to_sexpr" ->
            {[idx |-> FieldIndex(GrCurve, GrWord.width), digits |-> 6]}
      [] encoder = "WithPrecision.to_sexpr" ->
            {[idx |-> 1, digits |-> 2]}
      [] OTHER -> {}

\* a float of u units rounded to the digits, trailing zeros and a trailing
\* point stripped
Canonical(u, digits) == RStrip(RStrip(Fixed(u, digits), "0"), ".")

\* C15: a float field is written rounded to the precision of the field,
\* or to 6 fractional digits, with trailing zeros and a trailing point
\* stripped, never in scientific notation
C15_FloatEncoding ==
    (call \in Encoders /\ ret.status = "ok")
    => \A wf \in WidthField(call) :
          (Self.l[wf.idx].k = "float" /\ Self.l[wf.idx] \notin NonFinite)
          => HasText(ret.term.s,
                     <<"(">> \o GrWord.width \o <<" ">>
                     \o Canonical(Self.l[wf.idx].n, wf.digits) \o <<")">>)


\* a float that is no number is held in a field of the record
HoldsNonFinite(obj) == \E i \in 1..Len(obj.l) : obj.l[i] \in NonFinite

\* C16: encoding a record that holds NaN, +Infinity or -Infinity in a
\* float field fails with an error and produces no text
C16_NonFiniteFails ==
    (call \in Encoders /\ ret # Running /\ HoldsNonFinite(Self))
    => ret.status \notin {"ok", "running"}


\* the string fields written as (name "value"): the name and the place of
\* the field among the values of the record
StringFields(encoder) ==
    CASE encoder = "Segment.to_sexpr" ->
            {[token |-> BrdWord.layer,
              idx |-> AttrIndex(SegmentAttrs, "layer")],
             [token |-> BrdWord.uuid,
              idx |-> AttrIndex(SegmentAttrs, "uuid")]}
      [] encoder = "Stackup.to_sexpr" ->
            {[token |-> BrdWord.copper_finish,
              idx |-> AttrIndex(StackupAttrs, "copperFinish")]}
      [] encoder = "StackupLayer.to_sexpr" ->
            {[token |-> <<"t", "y", "p", "e">>,
              idx |-> AttrIndex(StackupLayerAttrs, "type")],
             [token |-> <<"c", "o", "l", "o", "r">>,
              idx |-> AttrIndex(StackupLayerAttrs, "color")]}
      [] encoder = "Target.to_sexpr" ->
            {[token |-> BrdWord.layer,
              idx |-> AttrIndex(TargetAttrs, "layer")],
             [token |-> BrdWord.uuid,
              idx |-> AttrIndex(TargetAttrs, "uuid")]}
      [] encoder = "GrLine.to_sexpr" ->
            {[token |-> GrWord.layer,
              idx |-> AttrIndex(GrLineAttrs, "layer")]}
      [] encoder = "GrCurve.to_sexpr" ->
            {[token |-> GrWord.layer,
              idx |-> FieldIndex(GrCurve, GrWord.layer)],
             [token |-> GrWord.uuid,
              idx |-> FieldIndex(GrCurve, GrWord.uuid)]}
      [] encoder = "GrTextBox.to_sexpr" ->
            {[token |-> GrWord.layer,
              idx |-> FieldIndex(GrTextBox, GrWord.layer)]}
      [] OTHER -> {}

\* the str between double quotes, each " inside it written as \"
RECURSIVE QuotedText(_)
QuotedText(chars) ==
    IF chars = <<>> THEN <<"\"">>
    ELSE (IF chars[1] = "\"" THEN <<"\\", "\"">> ELSE <<chars[1]>>)
         \o QuotedText(Tail(chars))

\* C17: every string-valued field is written between double quotes with
\* each internal " written as \"
C17_StringsQuoted ==
    (call \in Encoders /\ ret.status = "ok")
    => \A sf \in StringFields(call) :
          Self.l[sf.idx].k = "str"
          => HasText(ret.term.s,
                     <<"(">> \o sf.token \o <<" ", "\"">>
                     \o QuotedText(Self.l[sf.idx].s) \o <<")">>)


\* C19: the text to_sexpr writes, for any indent and either newline
\* setting, is one balanced expression parse_sexp accepts, and the term
\* it parses to does not depend on indent or newline
C19_LayoutIsCosmetic ==
    (call \in Encoders /\ ret # Running)
    => /\ ret.status = "ok"
       /\ \E p \in {parse_sexp(ret.term.s)},
             q \in {EncodeOf(call, Self, 0, FALSE)} :
             /\ p.status = "ok"
             /\ p.term.k = "list"
             /\ q.status = "ok"
             /\ p = parse_sexp(q.term.s)

\* the boolean fields written under their own name: the name, the place
\* of the field among the values of the record
BoolWritten(encoder) ==
    CASE encoder = "Segment.to_sexpr" ->
            {[token |-> BrdWord.locked,
              idx |-> AttrIndex(SegmentAttrs, "locked")]}
      [] encoder = "Stackup.to_sexpr" ->
            {[token |-> BrdWord.castellated_pads,
              idx |-> AttrIndex(StackupAttrs, "castellatedPads")],
             [token |-> BrdWord.edge_plating,
              idx |-> AttrIndex(StackupAttrs, "edgePlating")]}
      [] encoder = "GrLine.to_sexpr" ->
            {[token |-> GrWord.locked,
              idx |-> AttrIndex(GrLineAttrs, "locked")]}
      [] encoder = "GrCurve.to_sexpr" ->
            {[token |-> GrWord.locked,
              idx |-> FieldIndex(GrCurve, GrWord.locked)]}
      [] encoder = "GrTextBox.to_sexpr" ->
            {[token |-> GrWord.locked,
              idx |-> FieldIndex(GrTextBox, GrWord.locked)],
             [token |-> GrWord.border,
              idx |-> FieldIndex(GrTextBox, GrWord.border)]}
      [] OTHER -> {}

\* the children of the term a text parses to, the empty sequence for a
\* text that parses to no list
ChildrenOfText(text) ==
    LET WhenList(p) ==
            IF p.status = "ok" /\ p.term.k = "list" /\ p.term.l # <<>>
            THEN Tail(p.term.l) ELSE <<>>
    IN  WhenList(parse_sexp(text))

\* the text holds the child (name word)
HasPair(text, name, word) ==
    \E kids \in {ChildrenOfText(text)} :
        \E i \in 1..Len(kids) : kids[i] = PyList(<<PyStr(name), PyStr(word)>>)

\* the text holds the bare symbol name among its children
HasFlag(text, name) ==
    \E kids \in {ChildrenOfText(text)} :
        \E i \in 1..Len(kids) : kids[i] = PyStr(name)

\* the text holds no child for the name
HasNothing(text, name) ==
    \E kids \in {ChildrenOfText(text)} :
        \A i \in 1..Len(kids) :
            /\ kids[i] # PyStr(name)
            /\ ~(kids[i].k = "list" /\ kids[i].l # <<>>
                 /\ kids[i].l[1] = PyStr(name))

\* the record with the field at idx set to the value
WithField(obj, idx, val) == [obj EXCEPT !.l[idx] = val]

\* the texts the encoder writes for the record with the boolean field
\* true and with the field false
TextWhen(idx, val) ==
    EncodeOf(call, WithField(Self, idx, val), Indent, Newline).term.s

\* C20: a boolean field is written in one of two forms fixed per field:
\* the bare flag symbol when true and nothing when false, or (name yes)
\* when true and (name no) when false
C20_BooleanForms ==
    (call \in Encoders /\ ret.status = "ok")
    => \A bf \in BoolWritten(call) :
         \E yes \in {TextWhen(bf.idx, PyBool(TRUE))},
            no \in {TextWhen(bf.idx, PyBool(FALSE))} :
            \/ HasFlag(yes, bf.token) /\ HasNothing(no, bf.token)
            \/ HasPair(yes, bf.token, W_yes) /\ HasPair(no, bf.token, W_no)


----------------------------------------------------------------------------
(* The segment scenario: parse_sexp, Segment.from_sexpr, Segment.to_sexpr *)

\* (segment (start 1 2) (end 3 4) (width 0.1) (layer "F.Cu") (net 5)) and
\* its variants: another layer, another net, a uuid child at the end
SegmentText(layer, net, tail) ==
    <<"(", "s", "e", "g", "m", "e", "n", "t", " ", "(", "s", "t", "a", "r", "t", " ", "1", " ", "2", ")", " ", "(", "e", "n", "d", " ", "3", " ", "4", ")", " ", "(", "w", "i", "d", "t", "h", " ", "0", ".", "1", ")", " ", "(", "l", "a", "y", "e", "r", " ", "\"">>
    \o layer \o <<"\"", ")", " ", "(", "n", "e", "t", " ">> \o net
    \o <<")">> \o tail \o <<")">>

ScenarioText == SegmentText(GrWord.FCu, <<"5">>, <<>>)

SegmentTexts ==
    { SegmentText(layer, net, tail) :
        layer \in {GrWord.FCu, OtherWord.BCu},
        net \in {<<"5">>, <<"0">>},
        tail \in {<<>>, <<" ", "(", "u", "u", "i", "d", " ", "\"", "h", "i", "\"", ")">>} }

ScenarioInit ==
    /\ call = "segment_scenario"
    /\ arg = PyNone
    /\ ret = Running
    /\ hints = {}
    /\ sexp \in SegmentTexts
    /\ pos = 1
    /\ stack = <<>>
    /\ out = <<>>
    /\ term = "none"
    /\ value = <<>>
    /\ pc = "scan"
    /\ result = Running

\* Segment.from_sexpr(parse_sexp(text)): arg becomes the record decoded
DecodeParsed ==
    /\ call = "segment_scenario"
    /\ pc = "done"
    /\ arg = PyNone
    /\ ret = Running
    /\ \E r \in {Segment_from_sexpr(result.term)} :
          IF r.status = "ok"
          THEN arg' = r.term /\ ret' = ret
          ELSE arg' = arg /\ ret' = r
    /\ UNCHANGED <<parseVars, call, hints>>

\* the record decoded is written by to_sexpr() with its default indent=2
\* and newline=True
EncodeDecoded ==
    /\ call = "segment_scenario"
    /\ arg # PyNone
    /\ ret = Running
    /\ ret' = Text(Segment_to_sexpr(arg, 2, TRUE))
    /\ UNCHANGED <<parseVars, call, arg, hints>>

ScenarioNext ==
    \/ ReadBrackl
    \/ ReadBrackr
    \/ ReadNum
    \/ ReadSq
    \/ ReadS
    \/ ParseEnd
    \/ DecodeParsed
    \/ EncodeDecoded

SpecScenario == ScenarioInit /\ [][ScenarioNext]_vars

\* the token sequence of a text: the kind and the characters of each match
TokenSeq(ms) == [i \in 1..Len(ms) |-> <<ms[i].term, ms[i].value>>]

Tokens(text) == TokenSeq(AllMatches(text, 1))

\* the record the scenario names
ScenarioRecord ==
    PyObj("Segment",
          <<PyObj("Position", <<PyInt(1), PyInt(2), PyNone>>),
            PyObj("Position", <<PyInt(3), PyInt(4), PyNone>>),
            PyFloat(Unit \div 10), PyStr(GrWord.FCu), PyBool(FALSE),
            PyInt(5), PyStr(<<>>)>>)

\* C18: the scenario text decodes with Segment.from_sexpr to start=(1,2),
\* end=(3,4), width=0.1, layer="F.Cu", net=5, and Segment.to_sexpr of
\* that record yields the token sequence of the input
C18_SegmentScenario ==
    (call = "segment_scenario" /\ sexp = ScenarioText)
    => /\ pc # "fail"
       /\ ret.status \in {"running", "ok"}
       /\ arg # PyNone => arg = ScenarioRecord
       /\ ret.status = "ok" => Tokens(ret.term.s) = Tokens(sexp)

----------------------------------------------------------------------------
(* Calls in a row on one argument: what a call leaves behind *)

W_a == <<"a">>
W_b == <<"b">>

\* the values of the maps: two Property records, and a str, which is no
\* value a map field is declared to hold
MapValues ==
    {PyObj("Property", <<PyStr(SchemaWord.old), PyStr(W_b)>>),
     PyObj("Property", <<PyStr(W_a), PyStr(<<>>)>>),
     PyStr(OtherWord.hi)}

\* the dicts of up to two items
Maps ==
    {PyDict(<<>>)}
    \cup { PyDict(<<PyList(<<PyStr(W_a), v>>)>>) : v \in MapValues }
    \cup { PyDict(<<PyList(<<PyStr(W_a), v>>), PyList(<<PyStr(W_b), w>>)>>) :
            v \in MapValues, w \in MapValues }

PropertyMapRecords ==
    { PyObj("PropertyMap", <<properties, named>>) :
        properties \in Maps, named \in Maps }

\* the children of a sym list: properties, one without a key, a named list
\* and an unknown list
PropertyMapChildren ==
    {PyList(<<PyStr(SchemaWord.property), PyStr(W_a), PyStr(W_b)>>),
     PyList(<<PyStr(SchemaWord.property), PyStr(W_b)>>),
     PyList(<<PyStr(SchemaWord.property), PyStr(W_a)>>),
     PyList(<<PyStr(SchemaWord.property)>>),
     PyList(<<PyStr(SchemaWord.named), PyStr(W_a),
              PyList(<<PyStr(SchemaWord.property), PyStr(W_b)>>)>>),
     PyList(<<PyStr(SchemaWord.named),
              PyList(<<PyStr(SchemaWord.property), PyStr(W_b)>>)>>),
     PyList(<<PyStr(OtherWord.zzz), PyInt(1)>>)}

PropertyMapTerms ==
    { PyList(<<PyStr(SchemaWord.sym)>> \o kids) :
        kids \in Tuples(PropertyMapChildren, MaxItems) }
    \cup {PyStr(SchemaWord.sym)}

\* the values handed to val_to_str with no type: the maps, a list of two
\* records, a str
PureValues ==
    Maps \cup { PyList(<<v, w>>) : v \in MapValues, w \in MapValues }
    \cup {Quoted}

PureCalls == {"PropertyMap.to_sexpr", "PropertyMap.from_sexpr", "val_to_str"}

PureArgs(name) ==
    CASE name = "PropertyMap.to_sexpr" -> PropertyMapRecords
      [] name = "PropertyMap.from_sexpr" -> PropertyMapTerms
      [] name = "val_to_str" -> PureValues

PureInit ==
    /\ ParseIdle
    /\ call \in PureCalls
    /\ arg \in PureArgs(call)
    /\ ret = Running
    /\ hints = {}

\* arg.to_sexpr(), for the first time or again
ToSexprCall ==
    /\ call = "PropertyMap.to_sexpr"
    /\ ret' = SexprAuto_to_sexpr(PropertyMap, arg, 0, FALSE)
    /\ arg' = AfterToSexpr(PropertyMap, arg)
    /\ hints' = hints \cup AskedToSexpr(PropertyMap, arg)
    /\ UNCHANGED <<parseVars, call>>

\* val_to_str(arg), for the first time or again
ValToStrCall ==
    /\ call = "val_to_str"
    /\ ret' = val_to_str(arg, NoType)
    /\ arg' = AfterValToStr(arg, NoType)
    /\ hints' = hints \cup AskedValToStr(arg, NoType)
    /\ UNCHANGED <<parseVars, call>>

\* PropertyMap.from_sexpr(arg), for the first time or again: the code
\* reads exp and writes to none of its lists
FromSexprCall ==
    /\ call = "PropertyMap.from_sexpr"
    /\ ret' = SexprAuto_from_sexpr(PropertyMap, arg)
    /\ hints' = hints \cup AskedFromSexpr(PropertyMap, arg)
    /\ UNCHANGED <<parseVars, call, arg>>

PureNext ==
    \/ ToSexprCall
    \/ ValToStrCall
    \/ FromSexprCall

SpecPure == PureInit /\ [][PureNext]_vars

\* every call stays inside what the model covers
PureModelled == ret.status # "unmodelled"

\* a call leaves its argument as it was, leaves the state kept between
\* calls as it was, and returns what the call before it returned
PureCall ==
    /\ arg' = arg
    /\ hints' = hints
    /\ ret # Running => ret' = ret

\* C21: encode and decode are pure: a call of to_sexpr, of val_to_str or of
\* from_sexpr changes no field of its argument (the values of map fields
\* included), reads and writes no state shared between calls, and a call
\* repeated returns the same result
C21_Pure == [][(call \in PureCalls) => PureCall]_vars

----------------------------------------------------------------------------
(* The generic engine on the dataclasses of the schema section *)

\* the children of a pin list: bare symbols that are the attribute or the
\* serialized name of a flag, a bare symbol that is neither, a number, and
\* lists headed by the names of fields
PinChildren ==
    {PyStr(SchemaWord.hide), PyStr(SchemaWord.hideName),
     PyStr(SchemaWord.hide_name), PyStr(SchemaWord.dnp),
     PyStr(SchemaWord.unplaced), PyStr(OtherWord.hi), PyInt(7),
     PyList(<<PyStr(SchemaWord.length), Half>>),
     PyList(<<PyStr(SchemaWord.size), PyFloat(2 * Unit)>>),
     PyList(<<PyStr(SchemaWord.hide), PyStr(W_no)>>),
     PyList(<<PyStr(SchemaWord.kind), PyStr(OtherWord.zzz)>>),
     PyList(<<PyStr(OtherWord.zzz), PyInt(1)>>)}

\* nothing, or one value for each of the two positional fields
PinLeads == {<<>>, <<PyStr(OtherWord.hi), PyStr(OtherWord.zzz)>>}

PinTerms ==
    { PyList(<<PyStr(SchemaWord.pin)>> \o lead \o kids) :
        lead \in PinLeads, kids \in Tuples(PinChildren, MaxItems) }

PinRecords ==
    { PyObj("Pin", <<hide, kind, shape, hideName, dnp, length, PyNone>>) :
        hide \in {PyBool(TRUE), PyBool(FALSE)},
        kind \in {PyStr(<<>>), PyStr(OtherWord.hi)},
        shape \in {PyStr(<<>>), PyStr(OtherWord.zzz)},
        hideName \in {PyNone, PyBool(TRUE)},
        dnp \in {PyNone, PyBool(FALSE)},
        length \in {PyNone, Half} }

\* the children of a drawing list: shapes with and without a radius, a
\* disc, arcs, lists headed by the names of fields, an unknown list and a
\* bare symbol
DrawingChildren ==
    {PyList(<<PyStr(SchemaWord.circle),
              PyList(<<PyStr(SchemaWord.radius), PyInt(1)>>)>>),
     PyList(<<PyStr(SchemaWord.circle),
              PyList(<<PyStr(SchemaWord.radius), Half>>)>>),
     PyList(<<PyStr(SchemaWord.circle)>>),
     PyList(<<PyStr(SchemaWord.disc),
              PyList(<<PyStr(SchemaWord.radius), PyInt(2)>>)>>),
     PyList(<<PyStr(SchemaWord.arc),
              PyList(<<PyStr(SchemaWord.angle), PyInt(90)>>)>>),
     PyList(<<PyStr(SchemaWord.curve),
              PyList(<<PyStr(SchemaWord.radius), PyInt(3)>>)>>),
     PyList(<<PyStr(SchemaWord.outline),
              PyList(<<PyStr(SchemaWord.radius), PyInt(4)>>)>>),
     PyList(<<PyStr(OtherWord.zzz), PyInt(1)>>),
     PyStr(SchemaWord.circle)}

DrawingTerms ==
    { PyList(<<PyStr(SchemaWord.drawing)>> \o kids) :
        kids \in Tuples(DrawingChildren, MaxItems) }

\* the elements a collection of Circle is made to hold
Shapes ==
    {PyObj("Circle", <<PyNone>>), PyObj("Circle", <<Half>>),
     PyObj("Disc", <<Half>>), PyObj("Arc", <<Half, PyFloat(90 * Unit)>>)}

DrawingRecords ==
    { PyObj("Drawing", <<PyList(shapes), outline, circle, PyNone, PyNone>>) :
        shapes \in Tuples(Shapes, MaxItems),
        outline \in {PyNone, PyObj("Circle", <<PyFloat(Unit)>>),
                     PyObj("Disc", <<PyFloat(Unit)>>)},
        circle \in {PyNone, PyStr(OtherWord.hi)} }

EngineCalls ==
    {"Pin.from_sexpr", "Pin.to_sexpr", "GrTextBox.from_sexpr",
     "Drawing.from_sexpr", "Drawing.to_sexpr"}

EngineArgs(name) ==
    CASE name = "Pin.from_sexpr" -> PinTerms
      [] name = "Pin.to_sexpr" -> PinRecords
      [] name = "GrTextBox.from_sexpr" -> DecodeArgs(name)
      [] name = "Drawing.from_sexpr" -> DrawingTerms
      [] name = "Drawing.to_sexpr" -> DrawingRecords

EngineInit ==
    /\ ParseIdle
    /\ call \in EngineCalls
    /\ arg \in EngineArgs(call)
    /\ ret = Running
    /\ hints = {}

\* cls.from_sexpr(arg) for the class C
FromSexpr(name, C) ==
    /\ call = name
    /\ ret = Running
    /\ ret' = SexprAuto_from_sexpr(C, arg)
    /\ hints' = hints \cup AskedFromSexpr(C, arg)
    /\ UNCHANGED <<parseVars, call, arg>>

\* arg.to_sexpr() for a record of the class C
ToSexprOf(name, C) ==
    /\ call = name
    /\ ret = Running
    /\ ret' = SexprAuto_to_sexpr(C, arg, 0, FALSE)
    /\ arg' = AfterToSexpr(C, arg)
    /\ hints' = hints \cup AskedToSexpr(C, arg)
    /\ UNCHANGED <<parseVars, call>>

PinFromSexpr == FromSexpr("Pin.from_sexpr", Pin)
PinToSexpr == ToSexprOf("Pin.to_sexpr", Pin)
GrTextBoxFromSexpr == FromSexpr("GrTextBox.from_sexpr", GrTextBox)
DrawingFromSexpr == FromSexpr("Drawing.from_sexpr", Drawing)
DrawingToSexpr == ToSexprOf("Drawing.to_sexpr", Drawing)

EngineNext ==
    \/ PinFromSexpr
    \/ PinToSexpr
    \/ GrTextBoxFromSexpr
    \/ DrawingFromSexpr
    \/ DrawingToSexpr

SpecEngine == EngineInit /\ [][EngineNext]_vars

\* every call stays inside what the model covers
EngineModelled == ret.status # "unmodelled"

\* the class a decode of the engine specification serves
DecodedClass ==
    CASE call = "Pin.from_sexpr" -> Pin
      [] call = "GrTextBox.from_sexpr" -> GrTextBox
      [] call = "Drawing.from_sexpr" -> Drawing

\* a decode of a list with a head has returned a record
Decoded ==
    /\ call \in {"Pin.from_sexpr", "GrTextBox.from_sexpr"}
    /\ arg.k = "list"
    /\ arg.l # <<>>
    /\ ret.status = "ok"

\* the children of the term decoded, and those of them that are no list
Kids == Tail(arg.l)
Bare == SelectSeq(Kids, LAMBDA x : x.k # "list")

\* some child is a list with the head given
HasListChild(head) ==
    \E i \in 1..Len(Kids) :
        /\ Kids[i].k = "list"
        /\ Kids[i].l # <<>>
        /\ Kids[i].l[1] = PyStr(head)

\* the value the record decoded holds in the field named
Got(C, name) == ret.term.l[FieldIndex(C, name)]

Slots(C) == Len(C.positional_args)

\* the field named is as cls() left it
AtDefault(C, name) == Got(C, name) = C.fields[FieldIndex(C, name)].default

\* C22: in a decode that returns, the k-th child that is no list fills the
\* k-th positional field, also when it is the name of a flag, which it
\* then does not set; the non-list children after the last slot fill no
\* positional field (a list child headed by the name of a field binds by
\* name and is left aside)
C22_PositionalFirst ==
    Decoded =>
      \E C \in {DecodedClass} :
        /\ \A k \in 1..Slots(C) :
              HasListChild(get_sexpr_name(C,
                    C.fields[FieldIndex(C, C.positional_args[k])]))
              \/ IF k <= Len(Bare)
                 THEN Got(C, C.positional_args[k]) = Bare[k]
                 ELSE AtDefault(C, C.positional_args[k])
        /\ \A name \in Flags(C) :
              \/ AtDefault(C, name)
              \/ HasListChild(get_sexpr_name(C, C.fields[FieldIndex(C, name)]))
              \/ \E i \in (Slots(C) + 1)..Len(Bare) : Bare[i] = PyStr(name)

\* a text box whose two bare children are both the word locked: the first
\* is the text, the second sets the flag
C22_Witness ==
    /\ Decoded
    /\ call = "GrTextBox.from_sexpr"
    /\ Bare = <<PyStr(W_locked), PyStr(W_locked)>>
    /\ Got(GrTextBox, GrWord.text) = PyStr(W_locked)
    /\ Got(GrTextBox, W_locked) = PyBool(TRUE)

\* a pin whose two bare children are names of flags: both fill the slots
C22_WitnessPin ==
    /\ Decoded
    /\ call = "Pin.from_sexpr"
    /\ Bare = <<PyStr(SchemaWord.hide), PyStr(SchemaWord.hideName)>>
    /\ Got(Pin, SchemaWord.kind) = PyStr(SchemaWord.hide)
    /\ Got(Pin, SchemaWord.shape) = PyStr(SchemaWord.hideName)
    /\ AtDefault(Pin, SchemaWord.hide)
    /\ AtDefault(Pin, SchemaWord.hideName)

\* the j-th field descriptor of C answers to the head: by its serialized
\* name, by a tag of its type, or, for a flattened collection, by a tag of
\* its members
Answers(C, j, head) ==
    LET tags == PrefixOfType(C.fields[j].type.base).l
        tagged == \E t \in 1..Len(tags) : tags[t] = PyStr(head)
    IN  IF C.fields[j].flatten THEN tagged
        ELSE tagged \/ head = get_sexpr_name(C, C.fields[j])

Answering(C, head) == { j \in 1..Len(C.fields) : Answers(C, j, head) }

\* the least of a set of numbers
Least(S) == CHOOSE j \in S : \A h \in S : j <= h

\* the children bound one after the other, each to the first field in
\* declaration order that answers to its head and to no other field; a
\* child no field answers to is dropped
RECURSIVE BoundInOrder(_, _, _)
BoundInOrder(C, r, kids) ==
    IF kids = <<>> \/ r.status # "ok" THEN r
    ELSE IF Answering(C, kids[1].l[1].s) = {}
    THEN BoundInOrder(C, r, Tail(kids))
    ELSE BoundInOrder(C, TakeItem(C, r.term, kids[1],
                                  Least(Answering(C, kids[1].l[1].s))),
                      Tail(kids))

\* every child is a list with a symbol for its head
AllLists ==
    \A i \in 1..Len(Kids) :
        Kids[i].k = "list" /\ Kids[i].l # <<>> /\ Kids[i].l[1].k = "str"

\* two or more fields answer to the head of some child
Tied(C) ==
    \E i \in 1..Len(Kids) : Cardinality(Answering(C, Kids[i].l[1].s)) >= 2

\* C23: when two or more fields answer to the head of a list child, the
\* decode binds the child to the first of them in declaration order and to
\* no other; the record returned is a function of the input
C23_FirstFieldWins ==
    (/\ call \in {"Pin.from_sexpr", "Drawing.from_sexpr"}
     /\ ret # Running
     /\ AllLists
     /\ Tied(DecodedClass))
    => ret = BoundInOrder(DecodedClass, Returned(NewObject(DecodedClass)),
                          Kids)

\* a circle, to which shapes, outline and circle answer, goes to shapes;
\* an arc, to which curve and arc answer, goes to curve
C23_Witness ==
    /\ call = "Drawing.from_sexpr"
    /\ Kids = <<PyList(<<PyStr(SchemaWord.circle),
                         PyList(<<PyStr(SchemaWord.radius), PyInt(1)>>)>>),
                PyList(<<PyStr(SchemaWord.arc),
                         PyList(<<PyStr(SchemaWord.angle), PyInt(90)>>)>>)>>
    /\ Answering(Drawing, SchemaWord.circle) = {1, 2, 3}
    /\ Answering(Drawing, SchemaWord.arc) = {4, 5}
    /\ ret = Returned(PyObj("Drawing",
                <<PyList(<<PyObj("Circle", <<PyFloat(Unit)>>)>>), PyNone,
                  PyNone, PyObj("Arc", <<PyNone, PyFloat(90 * Unit)>>),
                  PyNone>>))


\* C24: in a decode that returns, a bare symbol after the positional slots
\* that is the serialized name of a flag (the attribute name after the
\* case rule and the alias) leaves that flag true, unless a list child
\* with that head gives the flag a value of its own
C24_FlagBySerializedName ==
    Decoded =>
      \E C \in {DecodedClass} :
        \A i \in (Slots(C) + 1)..Len(Bare) :
          \A j \in 1..Len(C.fields) :
            (/\ C.fields[j].name \in Flags(C)
             /\ Bare[i] = PyStr(get_sexpr_name(C, C.fields[j]))
             /\ ~HasListChild(get_sexpr_name(C, C.fields[j])))
            => ret.term.l[j] = PyBool(TRUE)

\* the same for the flags whose serialized name is their attribute name
C24_FlagByAttributeName ==
    Decoded =>
      \E C \in {DecodedClass} :
        \A i \in (Slots(C) + 1)..Len(Bare) :
          \A j \in 1..Len(C.fields) :
            (/\ C.fields[j].name \in Flags(C)
             /\ Bare[i] = PyStr(C.fields[j].name)
             /\ ~HasListChild(get_sexpr_name(C, C.fields[j])))
            => ret.term.l[j] = PyBool(TRUE)

\* the bare symbol hide_name after the two positional values leaves the
\* flag hideName, which is written hide_name, as it was
C24_SerializedNameUnset ==
    /\ Decoded
    /\ call = "Pin.from_sexpr"
    /\ Kids = <<PyStr(OtherWord.hi), PyStr(OtherWord.zzz),
                PyStr(SchemaWord.hide_name)>>
    /\ get_sexpr_name(Pin, Pin.fields[FieldIndex(Pin, SchemaWord.hideName)])
         = SchemaWord.hide_name
    /\ AtDefault(Pin, SchemaWord.hideName)


\* the indices of the fields of positional_args, in the order of that list,
\* and those of the other fields, in declaration order
PositionalIndices(C) ==
    [k \in 1..Len(C.positional_args) |-> FieldIndex(C, C.positional_args[k])]

NamedIndices(C) ==
    SelectSeq([i \in 1..Len(C.fields) |-> i],
              LAMBDA i : \A k \in 1..Len(C.positional_args) :
                            C.positional_args[k] # C.fields[i].name)

\* the text with every positional field ahead of every named field
PositionalAhead(C, obj) ==
    LET texts == [i \in 1..Len(C.fields) |-> FieldTexts(C, obj)[i].term]
        order == PositionalIndices(C) \o NamedIndices(C)
    IN  <<"(">> \o C.sexpr_prefix.l[1].s \o <<" ">>
        \o Concat([k \in 1..Len(order) |-> texts[order[k]]]) \o <<")">>

\* the text with the fields in declaration order
InDeclarationOrder(C, obj) ==
    LET texts == [i \in 1..Len(C.fields) |-> FieldTexts(C, obj)[i].term]
    IN  <<"(">> \o C.sexpr_prefix.l[1].s \o <<" ">>
        \o Concat(texts) \o <<")">>

\* C25: the text to_sexpr returns for a record holds the values of the
\* positional fields first, bare and in the order of positional_args, and
\* the named fields after them
C25_PositionalFieldsFirst ==
    (call = "Pin.to_sexpr" /\ ret.status = "ok")
    => ret.term.s = PositionalAhead(Pin, arg)

\* what to_sexpr does return: the fields in declaration order, the
\* positional ones bare
C25_DeclarationOrder ==
    (call = "Pin.to_sexpr" /\ ret.status = "ok")
    => ret.term.s = InDeclarationOrder(Pin, arg)

\* a pin whose flag hide, declared ahead of kind and shape, is written
\* ahead of them
C25_NamedAhead ==
    /\ call = "Pin.to_sexpr"
    /\ arg = PyObj("Pin", <<PyBool(TRUE), PyStr(OtherWord.hi),
                            PyStr(OtherWord.zzz), PyNone, PyNone, PyNone,
                            PyNone>>)
    /\ ret.status = "ok"
    /\ ret.term.s = <<"(", "p", "i", "n", " ", " ", " ",
                      "(", "h", "i", "d", "e", " ", "y", "e", "s", ")",
                      " ", " ", "\"", "h", "i", "\"",
                      " ", " ", "\"", "z", "z", "z", "\"", ")">>


\* the number of places of a text where the characters of sub stand
Occurrences(sub, chars) ==
    Cardinality({ i \in 1..Len(chars) : IsPrefixAt(sub, chars, i) })

\* a text box has been written
TextBoxWritten == call = "GrTextBox.to_sexpr" /\ ret.status = "ok"

\* the list of the field margins, a List[float] that is not flattened, and
\* the opening of a list headed by its name
Margins == Self.l[FieldIndex(GrTextBox, GrWord.margins)].l
MarginsOpen == <<"(">> \o GrWord.margins \o <<" ">>

\* C26: to_sexpr writes a list field that is not flattened as one list for
\* each element, with no list around them all, and writes nothing for it
\* when the list is empty
C26_OneListPerElement ==
    TextBoxWritten => Occurrences(MarginsOpen, ret.term.s) = Len(Margins)

\* what to_sexpr does write: nothing for an empty list, and one list
\* headed by the name of the field around all the elements of another
C26_OneListAroundAll ==
    TextBoxWritten =>
        Occurrences(MarginsOpen, ret.term.s) = IF Margins = <<>> THEN 0 ELSE 1

\* the margins 1.0 and 0.5 are written as the one list (margins  1 0.5)
C26_Wrapped ==
    /\ TextBoxWritten
    /\ Margins = <<PyFloat(Unit), Half>>
    /\ Occurrences(MarginsOpen \o <<" ", "1", " ", "0", ".", "5", ")">>,
                   ret.term.s) = 1


\* the opening of a list headed by the tag of the class C
OpenOf(C) == <<"(">> \o C.sexpr_prefix.l[1].s \o <<" ">>

\* a drawing with nothing but its flattened collection shapes, a
\* List[Circle], has been given to to_sexpr
ShapesOnly ==
    /\ call = "Drawing.to_sexpr"
    /\ ret # Running
    /\ arg.l[2] = PyNone
    /\ arg.l[3] = PyNone

\* the elements of shapes of the class named that hold a radius (a record
\* with no field set is written as the empty text)
ShapesOf(name) ==
    { i \in 1..Len(arg.l[1].l) :
        arg.l[1].l[i].k = name /\ arg.l[1].l[i].l[1] # PyNone }

\* C27 (encode): every element of a flattened collection is written with
\* the schema of its own class: the text holds as many lists headed by the
\* tag of a class as the collection has elements of that class
C27_OwnSchema ==
    ShapesOnly =>
        /\ ret.status = "ok"
        /\ \A C \in {Circle, Disc, Arc} :
              Occurrences(OpenOf(C), ret.term.s)
                = Cardinality(ShapesOf(C.name))

\* what to_sexpr does: every element is rebuilt as the declared element
\* class and written with that schema, or the rebuilding raises
C27_DeclaredSchema ==
    ShapesOnly =>
        IF \E i \in 1..Len(arg.l[1].l) : arg.l[1].l[i].k = Arc.name
        THEN ret = Raised("TypeError")
        ELSE /\ ret.status = "ok"
             /\ Occurrences(OpenOf(Circle), ret.term.s)
                  = Cardinality(ShapesOf(Circle.name) \cup ShapesOf(Disc.name))
             /\ Occurrences(OpenOf(Disc), ret.term.s) = 0

\* the children headed circle, the tag of the members of shapes
CircleKids ==
    SelectSeq(Kids, LAMBDA x : /\ x.k = "list"
                               /\ x.l # <<>>
                               /\ x.l[1] = PyStr(SchemaWord.circle))

\* C27 (decode): the collection decoded holds one element for each child
\* with the tag of its members, in the order of the input
C27_AppendedInOrder ==
    (call = "Drawing.from_sexpr" /\ ret.status = "ok") =>
        /\ Len(ret.term.l[1].l) = Len(CircleKids)
        /\ \A k \in 1..Len(CircleKids) :
              Returned(ret.term.l[1].l[k])
                = SexprAuto_from_sexpr(Circle, CircleKids[k])

\* a disc in the collection is written as a circle
C27_DiscAsCircle ==
    /\ ShapesOnly
    /\ arg.l[1].l = <<PyObj("Disc", <<Half>>)>>
    /\ ret.status = "ok"
    /\ Occurrences(OpenOf(Circle), ret.term.s) = 1
    /\ Occurrences(OpenOf(Disc), ret.term.s) = 0


-----------------------------------------------------------------------------
(* parse_sexp on deeply nested lists, one match of re.finditer per step *)

MaxDepth == 51      \* deepest nesting of a text handed to parse_sexp

\* what stands in every list ahead of the list inside it, and after it:
\* nothing or a symbol, nothing or a number and a quoted string
Leads == {<<>>, <<"a", " ">>}
Trails == {<<>>, <<" ", "1", ".", "5", " ", "\"", "b", " ", "c", "\"">>}

\* the text of d lists one inside the other
RECURSIVE NestText(_, _, _)
NestText(d, lead, trail) ==
    IF d = 0 THEN <<>>
    ELSE <<"(">> \o lead \o NestText(d - 1, lead, trail) \o trail \o <<")">>

NestTexts ==
    { NestText(d, lead, trail) :
        d \in 1..MaxDepth, lead \in Leads, trail \in Trails }

NestInit ==
    /\ CallIdle
    /\ sexp \in NestTexts
    /\ pos = 1
    /\ stack = <<>>
    /\ out = <<>>
    /\ term = "none"
    /\ value = <<>>
    /\ pc = "scan"
    /\ result = Running

SpecNest == NestInit /\ [][ParseNext]_vars

\* the greatest of a set of numbers
Greatest(S) == CHOOSE x \in S : \A y \in S : y <= x

\* the first 2^k matches re.finditer yields on text from p on, in order,
\* as far as they end at or before the index stop
RECURSIVE MatchesUpTo(_, _, _, _)
MatchesUpTo(text, p, k, stop) ==
    IF k = 0
    THEN Only({ IF m.term = "none" \/ m.end > stop THEN <<>> ELSE <<m>> :
                m \in {FindTerm(text, p)} })
    ELSE Only({ IF Len(first) < 2 ^ (k - 1) THEN first
                ELSE first \o MatchesUpTo(text, first[Len(first)].end,
                                          k - 1, stop) :
                first \in {MatchesUpTo(text, p, k - 1, stop)} })

\* a text holds no more matches than characters
Doublings(text) ==
    CHOOSE k \in 0..Len(text) :
        2 ^ k > Len(text) /\ (k = 0 \/ 2 ^ (k - 1) <= Len(text))

\* all the matches, and the matches read so far
MatchesFrom(text, p) == MatchesUpTo(text, p, Doublings(text), Len(text) + 1)
MatchesRead == MatchesUpTo(sexp, 1, Doublings(sexp), pos)

\* "(" matches minus ")" matches among the first k
OpenAfter(ms, k) ==
    Cardinality({ j \in 1..k : ms[j].term = "brackl" })
    - Cardinality({ j \in 1..k : ms[j].term = "brackr" })

\* the text is one list: it opens with "(" and that list closes with the
\* last match
OneList(ms) ==
    /\ ms # <<>>
    /\ ms[1].term = "brackl"
    /\ OpenAfter(ms, Len(ms)) = 0
    /\ \A k \in 1..(Len(ms) - 1) : OpenAfter(ms, k) > 0

\* marks for the opening and the closing of a list
OpenMark == [k |-> "open", s |-> <<>>, n |-> 0, l |-> <<>>]
CloseMark == [k |-> "close", s |-> <<>>, n |-> 0, l |-> <<>>]

\* the value a match stands for
TokenValue(m) ==
    CASE m.term = "brackl" -> OpenMark
      [] m.term = "brackr" -> CloseMark
      [] m.term = "num" -> NumValue(m.value)
      [] m.term = "sq" -> SqValue(m.value)
      [] OTHER -> PyStr(m.value)

\* a Term written out left to right: every list between its marks, its
\* children in order, every atom where it stands
RECURSIVE Flatten(_)
RECURSIVE FlattenRange(_, _, _)
Flatten(t) ==
    IF t.k = "list"
    THEN <<OpenMark>> \o FlattenRange(t.l, 1, Len(t.l)) \o <<CloseMark>>
    ELSE <<t>>
FlattenRange(ts, lo, hi) ==
    IF lo > hi THEN <<>>
    ELSE IF lo = hi THEN Flatten(ts[lo])
    ELSE FlattenRange(ts, lo, (lo + hi) \div 2)
         \o FlattenRange(ts, (lo + hi) \div 2 + 1, hi)

\* how many lists deep a Term is nested
RECURSIVE Nesting(_)
Nesting(t) ==
    IF t.k = "list"
    THEN 1 + Only({ Greatest(S \cup {0}) :
                    S \in {{ Nesting(t.l[i]) : i \in 1..Len(t.l) }} })
    ELSE 0

\* the most lists open at a time
Deepest(ms) ==
    Only({ Greatest(S) : S \in {{ OpenAfter(ms, k) : k \in 0..Len(ms) }} })

\* C28: while parse_sexp has not raised, the stack holds as many lists as
\* "(" matches were read minus ")" matches read; on a text that is one
\* list the Term returned, written out left to right, is the matches in
\* input order (every atom inside the list that was open when it was read,
\* children in order) and is nested as deep as the deepest open list
C28_NestingKept ==
    pc # "fail" =>
        /\ \E read \in {MatchesRead} :
              Len(stack) = OpenAfter(read, Len(read))
        /\ pc = "done" =>
              \E ms \in {MatchesFrom(sexp, 1)} :
                OneList(ms) =>
                  /\ Flatten(result.term)
                       = [k \in 1..Len(ms) |-> TokenValue(ms[k])]
                  /\ Nesting(result.term) = Deepest(ms)

\* a text of fifty lists and more, one inside the other with atoms in
\* each, has been parsed
C28_Witness ==
    /\ pc = "done"
    /\ result.status = "ok"
    /\ Nesting(result.term) >= 50
    /\ Len(result.term.l) = 4
    /\ result.term.l[1] = PyStr(<<"a">>)
    /\ result.term.l[3] = PyFloat(3 * (Unit \div 2))
    /\ result.term.l[4] = PyStr(<<"b", " ", "c">>)
    /\ Nesting(result.term.l[2]) = Nesting(result.term) - 1


-----------------------------------------------------------------------------
(* A str written by val_to_str inside a list and read back by parse_sexp *)

MaxStr == 4         \* longest str handed to val_to_str

\* a quote, a backslash, a space, the parentheses and a letter
StrAlphabet == {"\"", "\\", " ", "(", ")", "a"}

\* the heads of the list the text of the str is put in
StrHeads == {<<"x">>, <<"1">>}

StringInit ==
    /\ ParseIdle
    /\ call = "string_round_trip"
    /\ arg \in { PyList(<<PyStr(head), PyStr(s)>>) :
                    head \in StrHeads, s \in Texts(StrAlphabet, MaxStr) }
    /\ ret = Running
    /\ hints = {}

\* "(x " + val_to_str(s) + ")": the text becomes the input of parse_sexp
WriteStr ==
    /\ call = "string_round_trip"
    /\ pc = "idle"
    /\ \E text \in {val_to_str(arg.l[2], NoType)} :
           /\ ret' = text
           /\ IF text.status = "ok"
              THEN /\ sexp' = <<"(">> \o arg.l[1].s \o <<" ">>
                              \o text.term.s \o <<")">>
                   /\ pc' = "scan"
              ELSE /\ sexp' = sexp
                   /\ pc' = "fail"
    /\ UNCHANGED <<pos, stack, out, term, value, result, call, arg, hints>>

StringNext ==
    \/ WriteStr
    \/ ReadBrackl
    \/ ReadBrackr
    \/ ReadNum
    \/ ReadSq
    \/ ReadS
    \/ ParseEnd

SpecString == StringInit /\ [][StringNext]_vars

\* C29: a str s written by val_to_str between "(x " and ")" is read back
\* by parse_sexp without a failure as a list whose second element is s,
\* whatever quotes, backslashes, spaces and parentheses s holds
C29_StringRoundTrip ==
    (call = "string_round_trip" /\ pc \in {"done", "fail"}) =>
        /\ pc = "done"
        /\ result.status = "ok"
        /\ result.term.k = "list"
        /\ Len(result.term.l) >= 2
        /\ result.term.l[2] = arg.l[2]

\* a str with a backslash ahead of a quote, a parenthesis and a backslash
\* at its end has come back
C29_Witness ==
    /\ call = "string_round_trip"
    /\ pc = "done"
    /\ arg.l[2] = PyStr(<<"\\", "\"", ")", "\\">>)
    /\ sexp = <<"(", "x", " ", "\"", "\\", "\\", "\"", ")", "\\", "\"", ")">>
    /\ result.term.l[2] = arg.l[2]


-----------------------------------------------------------------------------
(* brditems.py lines 236-294: StackupLayer.from_sexpr *)

\* the tokens StackupLayer.from_sexpr reads
LayerWord ==
    [ type |-> <<"t", "y", "p", "e">>,
      thickness |-> <<"t", "h", "i", "c", "k", "n", "e", "s", "s">>,
      material |-> <<"m", "a", "t", "e", "r", "i", "a", "l">>,
      epsilon_r |-> <<"e", "p", "s", "i", "l", "o", "n", "_", "r">>,
      loss_tangent |->
        <<"l", "o", "s", "s", "_", "t", "a", "n", "g", "e", "n", "t">>,
      color |-> <<"c", "o", "l", "o", "r">>,
      addsublayer |->
        <<"a", "d", "d", "s", "u", "b", "l", "a", "y", "e", "r">> ]

\* StackupSubLayer(): thickness is 0.1
NewStackupSubLayer ==
    PyObj("StackupSubLayer",
          <<PyFloat(Unit \div 10), PyNone, PyNone, PyNone>>)

\* StackupLayer()
NewStackupLayer ==
    PyObj("StackupLayer",
          <<PyStr(<<>>), PyStr(<<>>), PyNone, PyNone, PyNone, PyNone, PyNone,
            PyList(<<>>)>>)

\* lines 256-258: the locals parsingSublayer, tempSublayer and object
LayerLocals(parsing, temp, object) ==
    PyList(<<PyBool(parsing), temp, object>>)

\* lines 276-279: the attribute lists of a sublayer
SubLayerTokens ==
    << <<LayerWord.thickness, "thickness">>,
       <<LayerWord.material, "material">>,
       <<LayerWord.epsilon_r, "epsilonR">>,
       <<LayerWord.loss_tangent, "lossTangent">> >>

\* lines 283-288: the attribute lists of the layer
LayerTokens ==
    << <<LayerWord.type, "type">> >> \o SubLayerTokens
    \o << <<LayerWord.color, "color">> >>

\* a run of `if item[0] == token: obj.attr = item[1]`: the attribute named
\* by the head of the item is set to its second element
SetByHead(obj, attrs, tokens, item) ==
    LET hits == { t \in 1..Len(tokens) :
                    PyEq(item.l[1], PyStr(tokens[t][1])) }
    IN  IF item.l = <<>> THEN Raised("IndexError")
        ELSE IF hits = {} THEN Returned(obj)
        ELSE SetAttr(obj, attrs, tokens[Only(hits)][2], Index(item, 1))

\* lines 267 and 292: object.subLayers.append(tempSublayer)
AppendSubLayer(object, temp) ==
    [object EXCEPT !.l[AttrIndex(StackupLayerAttrs, "subLayers")] =
        PyList(Append(@.l, temp))]

\* the loop body with line 268 left out: after a second addsublayer the
\* sublayer appended goes on being filled
StackupLayerStep_NoFresh(st, item) ==
    LET parsing == st.l[1] = PyBool(TRUE)
        temp == st.l[2]
        object == st.l[3]
    IN  IF item.k # "list"
        THEN IF PyEq(item, PyStr(LayerWord.addsublayer))
             THEN IF parsing
                  THEN Returned(LayerLocals(TRUE, temp,
                                            AppendSubLayer(object, temp)))
                  ELSE Returned(LayerLocals(TRUE, temp, object))
             ELSE Returned(st)
        ELSE IF parsing
        THEN Only({ IF r.status # "ok" THEN r
                    ELSE Returned(LayerLocals(TRUE, r.term, object)) :
                    r \in {SetByHead(temp, StackupSubLayerAttrs,
                                     SubLayerTokens, item)} })
        ELSE Only({ IF r.status # "ok" THEN r
                    ELSE Returned(LayerLocals(FALSE, temp, r.term)) :
                    r \in {SetByHead(object, StackupLayerAttrs, LayerTokens,
                                     item)} })

\* lines 261-288: the loop body for one item
StackupLayerStep(st, item) ==
    LET parsing == st.l[1] = PyBool(TRUE)
        temp == st.l[2]
        object == st.l[3]
    IN  IF item.k # "list"
        THEN IF PyEq(item, PyStr(LayerWord.addsublayer))
             THEN IF parsing
                  THEN Returned(LayerLocals(TRUE, NewStackupSubLayer,
                                            AppendSubLayer(object, temp)))
                  ELSE Returned(LayerLocals(TRUE, temp, object))
             ELSE Returned(st)
        ELSE IF parsing
        THEN Only({ IF r.status # "ok" THEN r
                    ELSE Returned(LayerLocals(TRUE, r.term, object)) :
                    r \in {SetByHead(temp, StackupSubLayerAttrs,
                                     SubLayerTokens, item)} })
        ELSE Only({ IF r.status # "ok" THEN r
                    ELSE Returned(LayerLocals(FALSE, temp, r.term)) :
                    r \in {SetByHead(object, StackupLayerAttrs, LayerTokens,
                                     item)} })

\* line 260: for item in exp[2:]
RECURSIVE StackupLayerLoop(_, _)
StackupLayerLoop(r, items) ==
    Only({ IF items = <<>> \/ q.status # "ok" THEN q
           ELSE StackupLayerLoop(StackupLayerStep(q.term, items[1]),
                                 Tail(items)) :
           q \in {r} })

\* lines 250-294: StackupLayer.from_sexpr
StackupLayer_from_sexpr(exp) ==
    IF exp.k # "list" THEN Raised("Exception")
    ELSE IF exp.l = <<>> THEN Raised("IndexError")
    ELSE IF ~PyEq(exp.l[1], PyStr(BrdWord.layer)) THEN Raised("Exception")
    ELSE IF Len(exp.l) < 2 THEN Raised("IndexError")
    ELSE Only({ IF st.status # "ok" THEN st
                ELSE IF st.term.l[1] = PyBool(TRUE)
                THEN Returned(AppendSubLayer(st.term.l[3], st.term.l[2]))
                ELSE Returned(st.term.l[3]) :
                st \in {StackupLayerLoop(
                          Returned(LayerLocals(FALSE, NewStackupSubLayer,
                              [NewStackupLayer EXCEPT !.l[1] = exp.l[2]])),
                          SubSeq(exp.l, 3, Len(exp.l)))} })

-----------------------------------------------------------------------------
(* One call of StackupLayer.from_sexpr on a parsed term *)

MaxKids == 4        \* most children after the name of a layer

\* the children of a layer: the symbol addsublayer, attribute lists of a
\* sublayer and of the layer, an attribute of the layer alone, a symbol
\* that is no token, a list with no value
LayerChildren ==
    {PyStr(LayerWord.addsublayer),
     PyList(<<PyStr(LayerWord.thickness), Half>>),
     PyList(<<PyStr(LayerWord.thickness), PyInt(2)>>),
     PyList(<<PyStr(LayerWord.material), PyStr(OtherWord.hi)>>),
     PyList(<<PyStr(LayerWord.type), PyStr(OtherWord.zzz)>>),
     PyStr(OtherWord.zzz),
     PyList(<<PyStr(LayerWord.epsilon_r)>>)}

\* a layer with its name and up to MaxKids children; and terms that are
\* no such list
LayerTerms ==
    { PyList(<<PyStr(BrdWord.layer), PyStr(GrWord.FCu)>> \o kids) :
        kids \in Tuples(LayerChildren, MaxKids) }
    \cup {PyStr(BrdWord.layer), PyList(<<>>), PyList(<<PyStr(BrdWord.layer)>>),
          PyList(<<PyStr(OtherWord.zzz), PyStr(GrWord.FCu)>>)}

LayerInit ==
    /\ ParseIdle
    /\ call = "StackupLayer.from_sexpr"
    /\ arg \in LayerTerms
    /\ ret = Running
    /\ hints = {}

\* StackupLayer.from_sexpr(arg)
DecodeStackupLayer ==
    /\ call = "StackupLayer.from_sexpr"
    /\ ret = Running
    /\ ret' = StackupLayer_from_sexpr(arg)
    /\ UNCHANGED <<parseVars, call, arg, hints>>

LayerNext == DecodeStackupLayer

SpecLayer == LayerInit /\ [][LayerNext]_vars

\* the children after the name, and where the symbol addsublayer stands
LayerKids == SubSeq(arg.l, 3, Len(arg.l))
Marks ==
    SelectSeq([i \in 1..Len(LayerKids) |-> i],
              LAMBDA i : LayerKids[i] = PyStr(LayerWord.addsublayer))

\* the children between the k-th addsublayer and the next; for k = 0 the
\* children ahead of the first
Stretch(k) ==
    { i \in 1..Len(LayerKids) :
        /\ k > 0 => i > Marks[k]
        /\ k < Len(Marks) => i < Marks[k + 1] }

\* the value of the last list headed by the token among the children S,
\* or what the attribute held to begin with
LastOf(S, token, initial) ==
    LET lists == { i \in S : /\ LayerKids[i].k = "list"
                             /\ LayerKids[i].l[1] = PyStr(token) }
    IN  IF lists = {} THEN initial ELSE LayerKids[Greatest(lists)].l[2]

\* C30: in a decode that returns, the layer has one sublayer for each
\* addsublayer symbol, in input order; the k-th sublayer holds the
\* attribute lists that stand between the k-th addsublayer and the next
\* and nothing else; the layer holds the attribute lists ahead of the
\* first addsublayer and nothing of what follows it
C30_SublayersKept ==
    (call = "StackupLayer.from_sexpr" /\ ret.status = "ok") =>
      \E subs \in {ret.term.l[AttrIndex(StackupLayerAttrs, "subLayers")].l} :
        /\ Len(subs) = Len(Marks)
        /\ \A k \in 1..Len(subs) :
             \A t \in 1..Len(SubLayerTokens) :
               subs[k].l[AttrIndex(StackupSubLayerAttrs, SubLayerTokens[t][2])]
                 = LastOf(Stretch(k), SubLayerTokens[t][1],
                          NewStackupSubLayer.l[AttrIndex(StackupSubLayerAttrs,
                                                   SubLayerTokens[t][2])])
        /\ \A t \in 1..Len(LayerTokens) :
             ret.term.l[AttrIndex(StackupLayerAttrs, LayerTokens[t][2])]
               = LastOf(Stretch(0), LayerTokens[t][1],
                        NewStackupLayer.l[AttrIndex(StackupLayerAttrs,
                                                    LayerTokens[t][2])])

\* a thickness ahead of the first addsublayer, a material after it and a
\* thickness after the second: one for the layer and one for each sublayer
C30_Witness ==
    /\ call = "StackupLayer.from_sexpr"
    /\ LayerKids = <<PyList(<<PyStr(LayerWord.thickness), Half>>),
                     PyStr(LayerWord.addsublayer),
                     PyList(<<PyStr(LayerWord.material),
                              PyStr(OtherWord.hi)>>),
                     PyStr(LayerWord.addsublayer)>>
    /\ ret = Returned(PyObj("StackupLayer",
                <<PyStr(GrWord.FCu), PyStr(<<>>), PyNone, Half, PyNone,
                  PyNone, PyNone,
                  PyList(<<PyObj("StackupSubLayer",
                                 <<PyFloat(Unit \div 10),
                                   PyStr(OtherWord.hi), PyNone, PyNone>>),
                           NewStackupSubLayer>>)>>))

====
